---- MODULE Spec2Model ----
(***************************************************************************)
(* A model of the HLIR lowering pass                                       *)
(* (external-crates/move/move-compiler/src/hlir/translate.rs).             *)
(*                                                                         *)
(* The pass is a tree transducer from the typed AST (T-AST) to the HLIR    *)
(* (H-AST).  Trees are records with a kind field k; the lowering functions *)
(* tail / value / statement are recursive operators that thread the        *)
(* Context record c and the target block b, and return the expression e    *)
(* (NoneExp for Rust's None).  The driver `program` is a state machine     *)
(* over the input program: one step per module entry, struct, constant,    *)
(* function, unused-field sweep and module exit.                           *)
(***************************************************************************)
EXTENDS Integers, Sequences, FiniteSets, TLC

VARIABLES
    prog,      \* the T-AST program handed to `program` (never changes)
    context,   \* the Context: env (diags, scopes), locals, counter, ...
    pc,        \* position of the driver: [m: module index, at: phase, i: item]
    out        \* the H-AST items produced so far for the current module

vars == <<prog, context, pc, out>>

\* the only element of a one-element set
The(S) == CHOOSE v \in S : TRUE

\* `let r = val;` followed by the code that uses r, written
\* Bind([r \in {val} |-> code]): val is computed once
Bind(f) == The({g[The(DOMAIN g)] : g \in {f}})

(***************************************************************************)
(* Vars: symbols are sequences of characters.                              *)
(***************************************************************************)
NEW_NAME_DELIM == "#"

TEMP_PREFIX == "%"

Digit(n) ==
    CASE n = 0 -> "0" [] n = 1 -> "1" [] n = 2 -> "2" [] n = 3 -> "3"
      [] n = 4 -> "4" [] n = 5 -> "5" [] n = 6 -> "6" [] n = 7 -> "7"
      [] n = 8 -> "8" [] OTHER -> "9"

RECURSIVE Decimal(_)
Decimal(n) ==
    IF n < 10 THEN <<Digit(n)>> ELSE Decimal(n \div 10) \o <<Digit(n % 10)>>

\* translate_var without the delimiter between id and color
TranslateVarNoDelim(v) ==
    v.name \o <<NEW_NAME_DELIM>> \o Decimal(v.id) \o Decimal(v.color)

translate_var(v) ==
    v.name \o <<NEW_NAME_DELIM>> \o Decimal(v.id) \o <<NEW_NAME_DELIM>> \o Decimal(v.color)

new_temp_name(counter) == <<TEMP_PREFIX, NEW_NAME_DELIM>> \o Decimal(counter)

is_temp_name(s) == Len(s) >= 1 /\ s[1] = TEMP_PREFIX

RECURSIVE find_delim(_, _)
find_delim(s, i) ==
    IF i > Len(s) THEN 0
    ELSE IF s[i] = NEW_NAME_DELIM THEN i ELSE find_delim(s, i + 1)

display_var(s) ==
    IF is_temp_name(s) THEN [k |-> "Tmp", orig |-> <<>>]
    ELSE
         Bind([i \in {find_delim(s, 1)} |->
            [k |-> "Orig", orig |-> IF i = 0 THEN s ELSE SubSeq(s, 1, i - 1)]])

(***************************************************************************)
(* Types.  A base type is [k, m, n]; a single type is [k, mut, b]; an      *)
(* H type is [k, ss].  An N type (input) is [k, mut, b, ss].               *)
(***************************************************************************)
BaseT(k, m, n) == [k |-> k, m |-> m, n |-> n]
BuiltinB(n) == BaseT("Builtin", "", n)
StructB(m, s) == BaseT("ModuleType", m, s)
UnresolvedB == BaseT("UnresolvedError", "", "")
UnreachableB == BaseT("Unreachable", "", "")
IceB == BaseT("ICE", "", "")

SBase(b) == [k |-> "Base", mut |-> FALSE, b |-> b]
SRef(mut, b) == [k |-> "Ref", mut |-> mut, b |-> b]

NoType == [k |-> "NoType", ss |-> <<>>]
tunit == [k |-> "Unit", ss |-> <<>>]
TSingle(s) == [k |-> "Single", ss |-> <<s>>]
TMultiple(ss) == [k |-> "Multiple", ss |-> ss]
tbool == TSingle(SBase(BuiltinB("bool")))

from_vec(ss) ==
    IF Len(ss) = 0 THEN tunit
    ELSE IF Len(ss) = 1 THEN TSingle(ss[1]) ELSE TMultiple(ss)

\* N types of the input
NT(k, mut, b, ss) == [k |-> k, mut |-> mut, b |-> b, ss |-> ss]
NUnit == NT("Unit", FALSE, IceB, <<>>)
NApply(b) == NT("Apply", FALSE, b, <<>>)
NRef(mut, inner) == NT("Ref", mut, IceB, <<inner>>)
NTuple(ss) == NT("Multiple", FALSE, IceB, ss)
NAnything == NT("Anything", FALSE, IceB, <<>>)
NBool == NApply(BuiltinB("bool"))
NU64 == NApply(BuiltinB("u64"))
NNone == NT("None", FALSE, IceB, <<>>)

base_type(nb) ==
    CASE nb.k = "Apply" -> nb.b
      [] nb.k = "UnresolvedError" -> UnresolvedB
      [] nb.k = "Anything" -> UnreachableB
      [] OTHER -> IceB

single_type(ty) ==
    IF ty.k = "Ref" THEN SRef(ty.mut, base_type(ty.ss[1]))
    ELSE SBase(base_type(ty))

single_types(ss) == [i \in 1..Len(ss) |-> single_type(ss[i])]

base_types(tys) == [i \in 1..Len(tys) |-> base_type(tys[i])]

type_(ty) ==
    CASE ty.k = "Unit" -> tunit
      [] ty.k = "Multiple" -> TMultiple(single_types(ty.ss))
      [] OTHER -> TSingle(single_type(ty))

expected_types(nss) ==
    from_vec([i \in 1..Len(nss) |->
                 IF nss[i].k = "None" THEN SBase(UnresolvedB) ELSE single_type(nss[i])])

type_at_index(t, idx) == t.ss[idx]

(***************************************************************************)
(* Context                                                                 *)
(***************************************************************************)
EmptyMap == <<>>

NoSignature == <<>>

\* Context::new; structs is the (module, struct) -> field -> index map
Context_new(structs, has_errors) ==
    [ structs |-> structs,
      has_errors |-> has_errors,
      function_locals |-> EmptyMap,
      signature |-> NoSignature,
      tmp_counter |-> 0,
      used_fields |-> {},
      named_block_binders |-> EmptyMap,
      named_block_types |-> EmptyMap,
      diags |-> <<>>,
      scopes |-> <<>>,
      ice |-> <<>> ]

Ice(c, msg) == [c EXCEPT !.ice = Append(@, msg)]

has_empty_locals(c) == DOMAIN c.function_locals = {}

\* UniqueMap::add(..).unwrap() on function_locals
locals_add(c, v, t) ==
    IF v \in DOMAIN c.function_locals
    THEN Ice(c, "function_locals duplicate")
    ELSE [c EXCEPT !.function_locals = @ @@ (v :> t)]

extract_function_locals(c) ==
    [c |-> [c EXCEPT !.tmp_counter = 0, !.function_locals = EmptyMap],
     locals |-> c.function_locals]

CounterNextStuck(c) == c

counter_next(c) == [c EXCEPT !.tmp_counter = @ + 1]

new_temp(c, t) ==
    LET c1 == counter_next(c)
        new_var == new_temp_name(c1.tmp_counter)
    IN
       [c |-> locals_add(c1, new_var, t), var |-> new_var]

bind_local(c, v, t) == locals_add(c, translate_var(v), t)

\* a registration that forgets the binders
RecordBindersForgotten(c, block_name, binders) == c

record_named_block_binders(c, block_name, binders) ==
    IF block_name \in DOMAIN c.named_block_binders
    THEN Ice(c, "ICE reused block name")
    ELSE [c EXCEPT !.named_block_binders = @ @@ (block_name :> binders)]

record_named_block_type(c, block_name, ty) ==
    IF block_name \in DOMAIN c.named_block_types
    THEN Ice(c, "ICE reused block name")
    ELSE [c EXCEPT !.named_block_types = @ @@ (block_name :> ty)]

has_named_block_binders(c, block_name) == block_name \in DOMAIN c.named_block_binders

lookup_named_block_binders(c, block_name) ==
    IF has_named_block_binders(c, block_name)
    THEN c.named_block_binders[block_name] ELSE <<>>

\* a lookup that never finds the type of the block
LookupTypeMissing(c, block_name) == NoType

lookup_named_block_type(c, block_name) ==
    IF block_name \in DOMAIN c.named_block_types
    THEN c.named_block_types[block_name] ELSE NoType

\* Context::fields: the declared index of each field of (module, struct),
\* EmptyMap standing for None
has_fields(c, m, s) == <<m, s>> \in DOMAIN c.structs

fields(c, m, s) == IF has_fields(c, m, s) THEN c.structs[<<m, s>>] ELSE EmptyMap

\* exit_function that keeps the named blocks
ExitFunctionKeepsBlocks(c) == [c EXCEPT !.signature = NoSignature]

exit_function(c) ==
    [c EXCEPT !.signature = NoSignature,
              !.named_block_binders = EmptyMap,
              !.named_block_types = EmptyMap]

add_diag(c, d) == [c EXCEPT !.diags = Append(@, d)]

add_warning_filter_scope(c, wf) == [c EXCEPT !.scopes = Append(@, wf)]

\* pop_warning_filter_scope that leaves the scope on the stack
PopKeepsScope(c) == c

pop_warning_filter_scope(c) ==
    IF c.scopes = <<>> THEN Ice(c, "pop of empty warning filter scope")
    ELSE [c EXCEPT !.scopes = SubSeq(@, 1, Len(@) - 1)]

use_fields(c, s, names) ==
    [c EXCEPT !.used_fields = @ \cup {<<s, names[i]>> : i \in 1..Len(names)}]

(***************************************************************************)
(* H-AST constructors and helpers                                          *)
(***************************************************************************)
NoneExp == [k |-> "None", loc |-> 0, ty |-> NoType, sub |-> <<>>]

IsSome(e) == e.k # "None"

HExp(k, loc, ty, sub) == [k |-> k, loc |-> loc, ty |-> ty, sub |-> sub]

\* H::Exp::is_unreachable
is_unreachable(e) == e.k = "Unreachable"

make_command(loc, k, sub) == [k |-> k, loc |-> loc, sub |-> sub]

\* divergent_while_block that also accepts a last Break or Continue
DivergentWhileAnyTerminal(block) ==
    block # <<>> /\ block[Len(block)].k \in {"Break", "Continue", "Abort", "Return"}

divergent_while_block(block) ==
    block # <<>> /\ block[Len(block)].k \in {"Abort", "Return"}

divergent_block(block) ==
    block # <<>> /\ block[Len(block)].k \in {"Break", "Continue", "Abort", "Return"}

divergent(stmt) ==
    CASE stmt.k = "IfElse" -> divergent_block(stmt.if_block) /\ divergent_block(stmt.else_block)
      [] stmt.k = "While" -> divergent_while_block(stmt.block)
      [] stmt.k = "Loop" -> ~stmt.has_break
      [] stmt.k \in {"Break", "Continue", "Abort", "Return"} -> TRUE
      [] OTHER -> FALSE

bool_exp(loc, value) ==
    [k |-> "Value", loc |-> loc, ty |-> tbool, sub |-> <<>>,
     val |-> IF value THEN 1 ELSE 0]

UnitE(loc, case) ==
    [k |-> "Unit", loc |-> loc, ty |-> tunit, sub |-> <<>>, case |-> case]

\* a unit that passes for one written by the user
UnitExpAsTrailing(loc) == UnitE(loc, "Trailing")

unit_exp(loc) == UnitE(loc, "Implicit")

trailing_unit_exp(loc) == UnitE(loc, "Trailing")

MoveE(loc, ty, annotation, var) ==
    [k |-> "Move", loc |-> loc, ty |-> ty, sub |-> <<>>,
     annotation |-> annotation, var |-> var]

CopyE(loc, ty, from_user, var) ==
    [k |-> "Copy", loc |-> loc, ty |-> ty, sub |-> <<>>,
     from_user |-> from_user, var |-> var]

LVar(loc, var, sty) == [k |-> "Var", loc |-> loc, var |-> var, sty |-> sty]

LIgnore(loc) == [k |-> "Ignore", loc |-> loc]

AssignC(loc, lvalues, rvalue) ==
    [k |-> "Assign", loc |-> loc, sub |-> <<rvalue>>, lvs |-> lvalues]

IfElseS(loc, cond, if_block, else_block) ==
    [k |-> "IfElse", loc |-> loc, sub |-> <<cond>>,
     if_block |-> if_block, else_block |-> else_block]

emit_unreachable(c, loc) ==
    add_diag(c, [k |-> "DeadCode", labels |-> <<[loc |-> loc, msg |-> "DEAD_ERR_EXP"]>>])

emit_trailing_semicolon_error(c, terminal_loc, semi_loc) ==
    add_diag(c, [k |-> "TrailingSemi",
                 labels |-> << [loc |-> semi_loc, msg |-> "Invalid trailing ';'"],
                               [loc |-> terminal_loc,
                                msg |-> "Any code after this expression will not be reached"],
                               [loc |-> semi_loc, msg |-> "info"] >>])

is_statement(e) == e.k \in {"Return", "Abort", "Give", "Continue", "Assign", "Mutate"}

is_unit_statement(e) == e.k \in {"Assign", "Mutate"}

is_binop(e) == e.k = "BinopExp"

trailing_unit(seq) ==
    /\ seq # <<>>
    /\ seq[Len(seq)].k = "Seq"
    /\ seq[Len(seq)].sub[1].k = "Unit"
    /\ seq[Len(seq)].sub[1].trailing

\* an ignore-and-pop that pops one value whatever the type
IgnoreAndPopOne(block, e) ==
    IF ~IsSome(e) THEN block
    ELSE Append(block, [k |-> "IgnoreAndPop", loc |-> e.loc, sub |-> <<e>>, pop_num |-> 1])

make_ignore_and_pop(block, e) ==
    IF ~IsSome(e) THEN block
    ELSE CASE e.ty.k = "Unit" ->
                IF e.k \in {"Unit", "Value"} THEN block
                ELSE Append(block, [k |-> "IgnoreAndPop", loc |-> e.loc, sub |-> <<e>>,
                                    pop_num |-> 0])
           [] e.ty.k = "Single" ->
                Append(block, [k |-> "IgnoreAndPop", loc |-> e.loc, sub |-> <<e>>,
                               pop_num |-> 1])
           [] OTHER ->
                Append(block, [k |-> "IgnoreAndPop", loc |-> e.loc, sub |-> <<e>>,
                               pop_num |-> Len(e.ty.ss)])

struct_name(t) ==
    IF t.k = "Single" /\ t.ss[1].b.k = "ModuleType" THEN <<t.ss[1].b.n>> ELSE <<>>

(***************************************************************************)
(* Freezing                                                                *)
(***************************************************************************)
needs_freeze_single(actual, expected) ==
    actual.k = "Ref" /\ actual.mut /\ expected.k = "Ref" /\ ~expected.mut

\* needs_freeze that never looks into a tuple
NeedsFreezeSkipsTuples(actual, expected) ==
    IF actual.k = "Single" /\ expected.k = "Single"
       /\ needs_freeze_single(actual.ss[1], expected.ss[1])
    THEN [k |-> "Point", points |-> <<>>]
    ELSE [k |-> "NotNeeded", points |-> <<>>]

needs_freeze(actual, expected) ==
    CASE actual.k = "Unit" /\ expected.k = "Unit" ->
            [k |-> "NotNeeded", points |-> <<>>]
      [] actual.k = "Single" /\ expected.k = "Single" ->
            IF needs_freeze_single(actual.ss[1], expected.ss[1])
            THEN [k |-> "Point", points |-> <<>>]
            ELSE [k |-> "NotNeeded", points |-> <<>>]
      [] actual.k = "Multiple" /\ expected.k = "Multiple" ->
            IF Len(actual.ss) # Len(expected.ss) THEN [k |-> "Arity", points |-> <<>>]
            ELSE
                 LET points == [i \in 1..Len(actual.ss) |->
                                   needs_freeze_single(actual.ss[i], expected.ss[i])]
                 IN
                    IF \E i \in 1..Len(points) : points[i]
                    THEN [k |-> "Sub", points |-> points]
                    ELSE [k |-> "NotNeeded", points |-> <<>>]
      [] OTHER -> [k |-> "Mismatch", points |-> <<>>]

FreezeSingleKeepsMut(s) == s

freeze_single(s) ==
    IF s.k = "Ref" /\ s.mut THEN SRef(FALSE, s.b) ELSE s

freeze_ty(t) ==
    IF t.k = "Single" THEN TSingle(freeze_single(t.ss[1])) ELSE t

freeze_point(e) ==
    [k |-> "Freeze", loc |-> e.loc, ty |-> freeze_ty(e.ty), sub |-> <<e>>]

(***************************************************************************)
(* Binders and temporaries                                                 *)
(***************************************************************************)
make_temp(c, loc, ty) ==
    Bind([nt \in {new_temp(c, ty)} |->
       [c |-> nt.c,
        binder |-> LVar(loc, nt.var, ty),
        e |-> MoveE(loc, TSingle(ty), "InferredLastUsage", nt.var)]])

RECURSIVE make_temps(_, _, _, _, _)
make_temps(c, loc, types, binders, exps) ==
    IF Len(binders) = Len(types) THEN [c |-> c, binders |-> binders, exps |-> exps]
    ELSE
         Bind([mt \in {make_temp(c, loc, types[Len(binders) + 1])} |->
            make_temps(mt.c, loc, types, Append(binders, mt.binder), Append(exps, mt.e))])

make_binders(c, loc, ty) ==
    CASE ty.k = "Unit" -> [c |-> c, binders |-> <<>>, e |-> unit_exp(loc)]
      [] ty.k = "Single" ->
            Bind([mt \in {make_temp(c, loc, ty.ss[1])} |->
               [c |-> mt.c, binders |-> <<mt.binder>>, e |-> mt.e]])
      [] OTHER ->
            Bind([mts \in {make_temps(c, loc, ty.ss, <<>>, <<>>)} |->
               [c |-> mts.c, binders |-> mts.binders,
                e |-> HExp("Multiple", loc, TMultiple(ty.ss), mts.exps)]])

RECURSIVE freeze(_, _, _)
RECURSIVE maybe_freeze(_, _, _, _)
RECURSIVE bind_value_in_block(_, _, _, _, _)
RECURSIVE bind_exp(_, _, _)

\* (Block, H::Exp) as [c, b, e]: b holds the statements to append
freeze(c, expected_type, e) ==
    LET need == needs_freeze(e.ty, expected_type)
    IN
       CASE need.k = "NotNeeded" -> [c |-> c, b |-> <<>>, e |-> e]
         [] need.k = "Mismatch" ->
               [c |-> IF c.has_errors THEN c ELSE Ice(c, "needs_freeze assertion"),
                b |-> <<>>, e |-> e]
         [] need.k = "Arity" ->
               [c |-> Ice(c, "assert actual_ss.len() == actual_es.len()"),
                b |-> <<>>, e |-> e]
         [] need.k = "Point" -> [c |-> c, b |-> <<>>, e |-> freeze_point(e)]
         [] OTHER ->
               Bind([bound \in {bind_exp(c, <<>>, e)} |->
               LET exps == [i \in 1..Len(bound.e.sub) |->
                               IF need.points[i] THEN freeze_point(bound.e.sub[i])
                               ELSE bound.e.sub[i]]
                   tys == [i \in 1..Len(exps) |-> exps[i].ty.ss[1]]
               IN
                  [c |-> bound.c, b |-> bound.b,
                   e |-> HExp("Multiple", bound.e.loc, TMultiple(tys), exps)]])

maybe_freeze(c, block, expected_type_opt, e) ==
    IF ~IsSome(e) THEN [c |-> c, b |-> block, e |-> e]
    ELSE IF is_unreachable(e) THEN [c |-> c, b |-> block, e |-> e]
    ELSE IF expected_type_opt.k # "NoType"
         THEN
              Bind([f \in {freeze(c, expected_type_opt, e)} |->
                 [c |-> f.c, b |-> block \o f.b, e |-> f.e]])
         ELSE [c |-> c, b |-> block, e |-> e]

\* a binding that assigns nothing
BindValueNever(c, binders, binders_type, stmts, value_exp) ==
    [c |-> c, b |-> stmts, bound |-> FALSE]

bind_value_in_block(c, binders, binders_type, stmts, value_exp) ==
    LET c0 == IF \E i \in 1..Len(binders) : binders[i].k # "Var"
              THEN Ice(c, "ICE tried bind_value for non-var lvalue") ELSE c
    IN
    Bind([rhs \in {maybe_freeze(c0, stmts, binders_type, value_exp)} |->
       IF IsSome(rhs.e)
       THEN [c |-> rhs.c, b |-> Append(rhs.b, AssignC(rhs.e.loc, binders, rhs.e)),
             bound |-> TRUE]
       ELSE [c |-> rhs.c, b |-> rhs.b, bound |-> FALSE]])

bind_exp(c, stmts, e) ==
    Bind([mb \in {make_binders(c, e.loc, e.ty)} |->
    Bind([bv \in {bind_value_in_block(mb.c, mb.binders, e.ty, stmts, e)} |->
       [c |-> bv.c, b |-> bv.b, e |-> mb.e]])])

MaybeBindExpKeepsInline(c, stmts, e) == [c |-> c, b |-> stmts, e |-> e]

maybe_bind_exp(c, stmts, e) ==
    IF ~IsSome(e) THEN [c |-> c, b |-> stmts, e |-> e]
    ELSE
         Bind([mb \in {make_binders(c, e.loc, e.ty)} |->
            IF mb.binders = <<>>
            THEN [c |-> mb.c, b |-> make_ignore_and_pop(stmts, e), e |-> NoneExp]
            ELSE
                 Bind([bv \in {bind_value_in_block(mb.c, mb.binders, e.ty, stmts, e)} |->
                    [c |-> bv.c, b |-> bv.b, e |-> mb.e]])])

(***************************************************************************)
(* T-AST constructors (the input).  Every node is [k, loc, nty, sub, ...]. *)
(***************************************************************************)
NVar(name, id, color) == [name |-> name, id |-> id, color |-> color]

\* Vec::sort_by on the idx component (a stable insertion sort)
RECURSIVE insert_by_idx(_, _)
insert_by_idx(sorted, x) ==
    IF sorted = <<>> THEN <<x>>
    ELSE IF sorted[Len(sorted)].idx <= x.idx THEN Append(sorted, x)
    ELSE Append(insert_by_idx(SubSeq(sorted, 1, Len(sorted) - 1), x), sorted[Len(sorted)])

RECURSIVE sort_by_idx(_)
sort_by_idx(seq) ==
    IF seq = <<>> THEN <<>>
    ELSE insert_by_idx(sort_by_idx(SubSeq(seq, 1, Len(seq) - 1)), seq[Len(seq)])

\* Vec::sort_by on the exp_idx component (a stable insertion sort)
RECURSIVE insert_by_exp_idx(_, _)
insert_by_exp_idx(sorted, x) ==
    IF sorted = <<>> THEN <<x>>
    ELSE IF sorted[Len(sorted)].exp_idx <= x.exp_idx THEN Append(sorted, x)
    ELSE Append(insert_by_exp_idx(SubSeq(sorted, 1, Len(sorted) - 1), x),
                sorted[Len(sorted)])

RECURSIVE sort_by_exp_idx(_)
sort_by_exp_idx(seq) ==
    IF seq = <<>> THEN <<>>
    ELSE insert_by_exp_idx(sort_by_exp_idx(SubSeq(seq, 1, Len(seq) - 1)), seq[Len(seq)])

Reverse(seq) == [i \in 1..Len(seq) |-> seq[Len(seq) + 1 - i]]

RECURSIVE Flatten(_)
Flatten(blocks) ==
    IF blocks = <<>> THEN <<>> ELSE blocks[1] \o Flatten(SubSeq(blocks, 2, Len(blocks)))

(***************************************************************************)
(* LValue declaration                                                      *)
(***************************************************************************)
RECURSIVE declare_bind(_, _)
RECURSIVE declare_bind_fields(_, _, _)

declare_bind_fields(c, ufields, i) ==
    IF i > Len(ufields) THEN c
    ELSE declare_bind_fields(declare_bind(c, ufields[i].lv), ufields, i + 1)

declare_bind(c, bind) ==
    CASE bind.k = "Ignore" -> c
      [] bind.k = "Var" -> bind_local(c, bind.nvar, single_type(bind.nty))
      [] OTHER -> declare_bind_fields(c, bind.ufields, 1)

RECURSIVE declare_bind_list_from(_, _, _)
declare_bind_list_from(c, binds, i) ==
    IF i > Len(binds) THEN c
    ELSE declare_bind_list_from(declare_bind(c, binds[i]), binds, i + 1)

declare_bind_list(c, binds) == declare_bind_list_from(c, binds, 1)

(***************************************************************************)
(* Assignment lvalues                                                      *)
(***************************************************************************)
assign_fields(c, m, s, tfields) ==
    Bind([decl_fields \in {fields(c, m, s)} |->
    LET known == has_fields(c, m, s)
        tfields_vec == [i \in 1..Len(tfields) |->
                           [idx |-> IF known THEN decl_fields[tfields[i].name] ELSE i - 1,
                            name |-> tfields[i].name,
                            b |-> base_type(tfields[i].nty),
                            lv |-> tfields[i].lv]]
    IN
       sort_by_idx(tfields_vec)])

RECURSIVE assign(_, _, _)
RECURSIVE assign_unpack(_, _, _, _, _)
RECURSIVE assign_borrow_unpack(_, _, _, _, _, _, _)
RECURSIVE make_assignments(_, _, _, _, _)
RECURSIVE make_assignments_from(_, _, _, _, _, _)

\* the loop of the Unpack case: (fields, after) accumulated over flds
assign_unpack(c, flds, i, hfields, after) ==
    IF i > Len(flds) THEN [c |-> c, hfields |-> hfields, after |-> after]
    ELSE
         Bind([c0 \in {IF Len(hfields) = flds[i].idx THEN c
                       ELSE Ice(c, "assert fields.len() == decl_idx")} |->
         Bind([fa \in {assign(c0, flds[i].lv, SBase(flds[i].b))} |->
            assign_unpack(fa.c, flds, i + 1,
                          Append(hfields, [name |-> flds[i].name, lv |-> fa.lv]),
                          after \o fa.after)])])

\* the loop of the BorrowUnpack case
assign_borrow_unpack(c, flds, i, mut, tmp, rvalue_ty, after) ==
    IF i > Len(flds) THEN [c |-> c, after |-> after]
    ELSE
         LET c0 == IF i - 1 = flds[i].idx THEN c ELSE Ice(c, "assert idx == decl_idx")
             floc == flds[i].lv.loc
             copy_tmp == CopyE(flds[i].lv.loc, TSingle(rvalue_ty), FALSE, tmp)
             borrow == [k |-> "Borrow", loc |-> floc,
                        ty |-> TSingle(SRef(mut, flds[i].b)),
                        sub |-> <<copy_tmp>>, mut |-> mut, name |-> flds[i].name]
         IN
         Bind([ma \in {make_assignments(c0, after, floc, <<flds[i].lv>>, borrow)} |->
            assign_borrow_unpack(ma.c, flds, i + 1, mut, tmp, rvalue_ty, ma.b)])

assign(c, ta, rvalue_ty) ==
    CASE ta.k = "Ignore" -> [c |-> c, lv |-> LIgnore(ta.loc), after |-> <<>>]
      [] ta.k = "Var" ->
            [c |-> c, lv |-> LVar(ta.loc, translate_var(ta.nvar), single_type(ta.nty)),
             after |-> <<>>]
      [] ta.k = "Unpack" ->
            LET c1 == use_fields(c, ta.name, [i \in 1..Len(ta.ufields) |-> ta.ufields[i].name])
            IN
            Bind([c2 \in {IF has_fields(c1, ta.mod, ta.name) \/ c1.has_errors THEN c1
                          ELSE Ice(c1, "assert fields.is_some()")} |->
            Bind([r \in {assign_unpack(c2, assign_fields(c2, ta.mod, ta.name, ta.ufields),
                                       1, <<>>, <<>>)} |->
               [c |-> r.c,
                lv |-> [k |-> "Unpack", loc |-> ta.loc, name |-> ta.name,
                        targs |-> base_types(ta.targs), ufields |-> r.hfields],
                after |-> r.after]])])
      [] OTHER ->
            LET c1 == use_fields(c, ta.name, [i \in 1..Len(ta.ufields) |-> ta.ufields[i].name])
            IN
            Bind([nt \in {new_temp(c1, rvalue_ty)} |->
            Bind([c2 \in {IF has_fields(nt.c, ta.mod, ta.name) \/ nt.c.has_errors THEN nt.c
                          ELSE Ice(nt.c, "assert fields.is_some()")} |->
            Bind([r \in {assign_borrow_unpack(c2, assign_fields(c2, ta.mod, ta.name, ta.ufields),
                                              1, ta.mut, nt.var, rvalue_ty, <<>>)} |->
               [c |-> r.c, lv |-> LVar(ta.loc, nt.var, rvalue_ty), after |-> r.after]])])])

\* the loop of make_assignments: (lvalues, after) accumulated over assigns
make_assignments_from(c, assigns, rvalue, i, lvalues, after) ==
    IF i > Len(assigns) THEN [c |-> c, lvalues |-> lvalues, after |-> after]
    ELSE IF i > Len(rvalue.ty.ss)
         THEN [c |-> Ice(c, "type_at_index out of range"), lvalues |-> lvalues,
               after |-> after]
    ELSE
         Bind([a \in {assign(c, assigns[i], type_at_index(rvalue.ty, i))} |->
            make_assignments_from(a.c, assigns, rvalue, i + 1,
                                  Append(lvalues, a.lv), after \o a.after)])

make_assignments(c, result, loc, assigns, rvalue) ==
    Bind([r \in {make_assignments_from(c, assigns, rvalue, 1, <<>>, <<>>)} |->
       [c |-> r.c, b |-> Append(result, AssignC(loc, r.lvalues, rvalue)) \o r.after]])

(***************************************************************************)
(* Tail, value and statement position                                      *)
(***************************************************************************)
\* tail, value, statement, their block forms and process_binops are mutually
\* recursive; each calls the others through lower, which is defined after them
RECURSIVE lower(_, _, _, _, _)
RECURSIVE value_pre(_, _, _)
RECURSIVE value_list(_, _, _, _)
RECURSIVE statement_block_from(_, _, _, _, _, _)
RECURSIVE value_statement(_, _, _)
RECURSIVE value_evaluation_order(_, _, _)
RECURSIVE veo_loop(_, _, _, _, _, _)
RECURSIVE binops_forward(_, _, _)
RECURSIVE builtin(_, _, _)
RECURSIVE pack_reorder(_, _, _, _, _, _)
RECURSIVE exp_list_items(_, _, _, _, _)
RECURSIVE lower_if_else(_, _, _, _)
RECURSIVE lower_assert(_, _, _)
RECURSIVE lower_pack(_, _, _, _)

process_loop_body(c, body) == lower("statement", c, <<>>, NoType, body)

\* tail (IfElse) and value (IfElse): the two arms are the same code
lower_if_else(c, block, e, out_type) ==
    Bind([cond \in {lower("value", c, block, tbool, e.sub[1])} |->
    Bind([conseq \in {lower("tail", cond.c, <<>>, out_type, e.sub[2])} |->
    Bind([alt \in {lower("tail", conseq.c, <<>>, out_type, e.sub[3])} |->
    Bind([mb \in {make_binders(alt.c, e.loc, out_type)} |->
    Bind([if_binds \in {bind_value_in_block(mb.c, mb.binders, out_type, conseq.b, conseq.e)} |->
    Bind([else_binds \in {bind_value_in_block(if_binds.c, mb.binders, out_type, alt.b, alt.e)} |->
       IF IsSome(cond.e)
       THEN [c |-> else_binds.c,
             b |-> Append(cond.b, IfElseS(e.loc, cond.e, if_binds.b, else_binds.b)),
             e |-> IF if_binds.bound \/ else_binds.bound THEN mb.e ELSE NoneExp]
       ELSE [c |-> else_binds.c, b |-> cond.b, e |-> NoneExp]])])])])])])

tail(c, block, expected_type, e) ==
    IF is_statement(e)
    THEN
         Bind([r \in {lower("statement", c, block, NoType, e)} |->
            [c |-> r.c, b |-> r.b,
             e |-> IF is_unit_statement(e) THEN unit_exp(e.loc) ELSE NoneExp]])
    ELSE
    LET out_type == type_(e.nty)
    IN
       CASE e.k = "IfElse" -> lower_if_else(c, block, e, out_type)
         [] e.k = "While" ->
               Bind([r \in {lower("statement", c, block, NoType, e)} |->
                  [c |-> r.c, b |-> r.b, e |-> trailing_unit_exp(e.loc)]])
         [] e.k = "Loop" /\ e.has_break ->
               LET name == translate_var(e.nvar)
               IN
               Bind([mb \in {make_binders(c, e.loc, out_type)} |->
               LET result == IF mb.binders = <<>> THEN trailing_unit_exp(e.loc) ELSE mb.e
                   c1 == record_named_block_binders(mb.c, name, mb.binders)
                   c2 == record_named_block_type(c1, name, out_type)
               IN
               Bind([body \in {process_loop_body(c2, e.sub[1])} |->
                  [c |-> body.c,
                   b |-> Append(block, [k |-> "Loop", loc |-> e.loc, sub |-> <<>>,
                                        var |-> name, has_break |-> TRUE,
                                        block |-> body.b]),
                   e |-> result]])])
         [] e.k = "Loop" ->
               Bind([r \in {lower("statement", c, block, NoType, e)} |->
                  [c |-> r.c, b |-> r.b, e |-> NoneExp]])
         [] e.k = "Block" -> lower("tail_block", c, block, out_type, e.seq)
         [] OTHER -> lower("value", c, block, expected_type, e)

tail_block(c, block, expected_type, seq) ==
    IF seq = <<>> THEN [c |-> c, b |-> block, e |-> NoneExp]
    ELSE
    LET has_trailing_unit == trailing_unit(seq)
        last_exp == seq[Len(seq)]
    IN
    Bind([r \in {lower("statement_block", c, block, FALSE, SubSeq(seq, 1, Len(seq) - 1))} |->
       IF last_exp.k # "Seq"
       THEN [c |-> Ice(r.c, "ICE last sequence item should be an exp"), b |-> r.b,
             e |-> NoneExp]
       ELSE IF has_trailing_unit /\ r.b # <<>> /\ divergent(r.b[Len(r.b)])
       THEN [c |-> emit_trailing_semicolon_error(r.c, r.b[Len(r.b)].loc, last_exp.sub[1].loc),
             b |-> r.b, e |-> NoneExp]
       ELSE lower("tail", r.c, r.b, expected_type, last_exp.sub[1])])

\* value (Builtin Assert): is_macro is the flag of T::BuiltinFunction_::Assert
lower_assert(c, block, e) ==
    LET arguments == e.sub[1]
    IN
       IF arguments.k # "ExpList" \/ Len(arguments.sub) # 2
       THEN [c |-> Ice(c, "ICE type checking failed"), b |-> block, e |-> NoneExp]
       ELSE IF ~e.is_macro
       THEN
            Bind([cond \in {lower("value", c, block, tbool, arguments.sub[1])} |->
            Bind([code \in {lower("value", cond.c, cond.b, NoType, arguments.sub[2])} |->
               [c |-> code.c,
                b |-> IF IsSome(cond.e) /\ IsSome(code.e)
                      THEN Append(code.b,
                                  IfElseS(e.loc, cond.e, <<>>,
                                          <<make_command(e.loc, "Abort", <<code.e>>)>>))
                      ELSE code.b,
                e |-> unit_exp(e.loc)]])])
       ELSE
            Bind([cond \in {lower("value", c, block, tbool, arguments.sub[1])} |->
            Bind([code \in {lower("value", cond.c, <<>>, NoType, arguments.sub[2])} |->
               [c |-> code.c,
                b |-> IF IsSome(cond.e) /\ IsSome(code.e)
                      THEN Append(cond.b,
                                  IfElseS(e.loc, cond.e, <<>>,
                                          Append(code.b,
                                                 make_command(e.loc, "Abort", <<code.e>>))))
                      ELSE cond.b,
                e |-> unit_exp(e.loc)]])])

\* the loop of the reorder arm of value (Pack): fields is the Vec<Option<..>>,
\* an unset slot being NoneExp
pack_reorder(c, block, texp_fields, i, flds, stop) ==
    IF i > Len(texp_fields) \/ stop THEN [c |-> c, b |-> block, flds |-> flds]
    ELSE
         LET f == texp_fields[i]
         IN
            IF f.idx >= Len(flds)
            THEN pack_reorder(c, block, texp_fields, i, flds, TRUE)
            ELSE
                 LET base_ty == base_type(f.nty)
                 IN
                 Bind([fe \in {lower("value", c, block, TSingle(SBase(base_ty)), f.te)} |->
                 Bind([c1 \in {IF IsSome(flds[f.idx + 1].e) THEN
                                  Ice(fe.c, "assert fields.get(decl_idx).is_none()")
                               ELSE fe.c} |->
                    IF ~IsSome(fe.e)
                    THEN [c |-> Ice(c1, "assert field_expr.is_some()"), b |-> fe.b,
                          flds |-> flds]
                    ELSE
                         Bind([bound \in {bind_exp(c1, fe.b, fe.e)} |->
                            pack_reorder(bound.c, bound.b, texp_fields, i + 1,
                                         [flds EXCEPT ![f.idx + 1] =
                                             [name |-> f.name, b |-> base_ty, e |-> bound.e]],
                                         FALSE)])])])

PackReorderNever(texp_fields) == FALSE

pack_needs_reorder(texp_fields) ==
    \E i \in 1..Len(texp_fields) : texp_fields[i].idx # texp_fields[i].exp_idx

lower_pack(c, block, e, out_type) ==
    LET c1 == use_fields(c, e.name, [i \in 1..Len(e.pfields) |-> e.pfields[i].name])
        known == has_fields(c1, e.mod, e.name)
    IN
    Bind([c2 \in {IF known \/ c1.has_errors THEN c1 ELSE Ice(c1, "assert fields.is_some()")} |->
    Bind([decl_fields \in {fields(c2, e.mod, e.name)} |->
    Bind([texp_fields \in {sort_by_exp_idx([i \in 1..Len(e.pfields) |->
                               [idx |-> IF known THEN decl_fields[e.pfields[i].name] ELSE i - 1,
                                name |-> e.pfields[i].name,
                                exp_idx |-> e.pfields[i].exp_idx,
                                nty |-> e.pfields[i].nty,
                                te |-> e.sub[i]]])} |->
    LET reorder_fields == pack_needs_reorder(texp_fields)
    IN
       IF ~reorder_fields
       THEN
            Bind([field_exps \in {value_evaluation_order(c2, block,
                                      [i \in 1..Len(texp_fields) |->
                                          [te |-> texp_fields[i].te,
                                           ty |-> TSingle(SBase(base_type(texp_fields[i].nty)))]])} |->
            LET c3 == IF Len(field_exps.es) = Len(texp_fields) THEN field_exps.c
                      ELSE Ice(field_exps.c, "ICE exp_evaluation_order changed arity")
            IN
               [c |-> c3, b |-> field_exps.b,
                e |-> [k |-> "Pack", loc |-> e.loc, ty |-> out_type,
                       sub |-> field_exps.es, name |-> e.name,
                       targs |-> base_types(e.targs),
                       pfields |-> [i \in 1..Len(texp_fields) |->
                                      [name |-> texp_fields[i].name,
                                       b |-> base_type(texp_fields[i].nty)]]]]])
       ELSE
            LET num_fields == IF known THEN Cardinality(DOMAIN decl_fields) ELSE 0
            IN
            Bind([r \in {pack_reorder(c2, block, texp_fields, 1,
                                      [i \in 1..num_fields |->
                                          [name |-> "", b |-> IceB, e |-> NoneExp]], FALSE)} |->
            LET set == SelectSeq(r.flds, LAMBDA o : IsSome(o.e))
            IN
               [c |-> r.c, b |-> r.b,
                e |-> [k |-> "Pack", loc |-> e.loc, ty |-> out_type,
                       sub |-> [i \in 1..Len(set) |-> set[i].e], name |-> e.name,
                       targs |-> base_types(e.targs),
                       pfields |-> [i \in 1..Len(set) |->
                                      [name |-> set[i].name, b |-> set[i].b]]]]])])])])

\* the loop of value (ExpList)
exp_list_items(c, block, e, i, values) ==
    IF i > Len(e.sub) THEN [c |-> c, b |-> block, es |-> values]
    ELSE
         Bind([nv \in {lower("value", c, block, TSingle(single_type(e.ntys[i])), e.sub[i])} |->
            IF ~IsSome(nv.e)
            THEN [c |-> Ice(nv.c, "new_value.unwrap()"), b |-> nv.b, es |-> values]
            ELSE exp_list_items(nv.c, nv.b, e, i + 1, Append(values, nv.e))])

value(c, block, expected_type, e) ==
    IF is_statement(e)
    THEN
         LET c1 == IF is_unit_statement(e) THEN c ELSE emit_unreachable(c, e.loc)
         IN
         Bind([r \in {lower("statement", c1, block, NoType, e)} |->
            [c |-> r.c, b |-> r.b,
             e |-> IF is_unit_statement(e) THEN unit_exp(e.loc) ELSE NoneExp]])
    ELSE IF is_binop(e) THEN lower("process_binops", c, block, type_(e.nty), e)
    ELSE
         Bind([preresult \in {value_pre(c, block, e)} |->
            maybe_freeze(preresult.c, preresult.b, expected_type, preresult.e)])

\* the match of value that computes preresult
value_pre(c, block, e) ==
    LET out_type == type_(e.nty)
        eloc == e.loc
    IN
       CASE e.k = "Builtin" /\ e.bt = "Assert" -> lower_assert(c, block, e)
         [] e.k = "IfElse" -> lower_if_else(c, block, e, out_type)
         [] e.k = "While" ->
               Bind([r \in {lower("statement", c, block, NoType, e)} |->
                  [c |-> r.c, b |-> r.b, e |-> unit_exp(eloc)]])
         [] e.k = "Loop" /\ e.has_break ->
               LET name == translate_var(e.nvar)
               IN
               Bind([mb \in {make_binders(c, eloc, out_type)} |->
               LET c1 == record_named_block_binders(mb.c, name, mb.binders)
                   c2 == record_named_block_type(c1, name, out_type)
               IN
               Bind([body \in {process_loop_body(c2, e.sub[1])} |->
                  [c |-> body.c,
                   b |-> Append(block, [k |-> "Loop", loc |-> eloc, sub |-> <<>>,
                                        var |-> name, has_break |-> TRUE,
                                        block |-> body.b]),
                   e |-> mb.e]])])
         [] e.k = "Loop" ->
               Bind([r \in {lower("statement", emit_unreachable(c, eloc), block, NoType, e)} |->
                  [c |-> r.c, b |-> r.b, e |-> NoneExp]])
         [] e.k = "Block" -> lower("value_block", c, block, out_type, e.seq)
         [] e.k = "ModuleCall" ->
               LET expected == from_vec(single_types(e.nparams))
               IN
               Bind([args \in {value_list(c, block, expected, e.sub[1])} |->
                  [c |-> args.c, b |-> args.b,
                   e |-> IF args.some
                         THEN [k |-> "ModuleCall", loc |-> eloc, ty |-> out_type,
                               sub |-> args.es, mod |-> e.mod, name |-> e.name,
                               targs |-> base_types(e.targs)]
                         ELSE NoneExp]])
         [] e.k = "Builtin" ->
               Bind([r \in {builtin(c, block, e)} |->
                  [c |-> r.c, b |-> r.b,
                   e |-> IF IsSome(r.e) THEN [r.e EXCEPT !.ty = out_type, !.loc = eloc]
                         ELSE NoneExp]])
         [] e.k = "Vector" ->
               Bind([args \in {value_list(c, block, NoType, e.sub[1])} |->
                  [c |-> args.c, b |-> args.b,
                   e |-> IF args.some
                         THEN [k |-> "Vector", loc |-> eloc, ty |-> out_type,
                               sub |-> args.es, b |-> base_type(e.vty)]
                         ELSE NoneExp]])
         [] e.k \in {"Dereference", "UnaryExp"} ->
               Bind([v \in {lower("value", c, block, NoType, e.sub[1])} |->
                  [c |-> v.c, b |-> v.b,
                   e |-> IF IsSome(v.e)
                         THEN [k |-> e.k, loc |-> eloc, ty |-> out_type, sub |-> <<v.e>>,
                               op |-> e.op]
                         ELSE NoneExp]])
         [] e.k = "Pack" -> lower_pack(c, block, e, out_type)
         [] e.k = "ExpList" ->
               Bind([r \in {exp_list_items(c, block, e, 1, <<>>)} |->
                  [c |-> r.c, b |-> r.b, e |-> HExp("Multiple", eloc, out_type, r.es)]])
         [] e.k = "Borrow" ->
               Bind([v \in {lower("value", c, block, NoType, e.sub[1])} |->
                  IF IsSome(v.e)
                  THEN
                       LET sn == struct_name(v.e.ty)
                       IN
                          [c |-> IF sn # <<>> THEN use_fields(v.c, sn[1], <<e.name>>)
                                 ELSE v.c,
                           b |-> v.b,
                           e |-> [k |-> "Borrow", loc |-> eloc, ty |-> out_type,
                                  sub |-> <<v.e>>, mut |-> e.mut, name |-> e.name]]
                  ELSE v])
         [] e.k = "TempBorrow" ->
               Bind([v \in {lower("value", c, block, NoType, e.sub[1])} |->
                  IF IsSome(v.e)
                  THEN
                       Bind([bound \in {bind_exp(v.c, v.b, v.e)} |->
                          IF bound.e.k = "Move" /\ bound.e.annotation = "InferredLastUsage"
                          THEN [c |-> bound.c, b |-> bound.b,
                                e |-> [k |-> "BorrowLocal", loc |-> eloc, ty |-> out_type,
                                       sub |-> <<>>, mut |-> e.mut, var |-> bound.e.var]]
                          ELSE [c |-> Ice(bound.c, "ICE invalid bind_exp for single value"),
                                b |-> bound.b, e |-> NoneExp]])
                  ELSE v])
         [] e.k = "BorrowLocal" ->
               [c |-> c, b |-> block,
                e |-> [k |-> "BorrowLocal", loc |-> eloc, ty |-> out_type, sub |-> <<>>,
                       mut |-> e.mut, var |-> translate_var(e.nvar)]]
         [] e.k = "Cast" ->
               Bind([v \in {lower("value", c, block, NoType, e.sub[1])} |->
               LET ok == e.nty2.k = "Apply" /\ e.nty2.b.k = "Builtin"
                         /\ e.nty2.b.n \in {"u8", "u16", "u32", "u64", "u128", "u256"}
                   c1 == IF ok THEN v.c ELSE Ice(v.c, "ICE typing failed for cast")
               IN
                  [c |-> c1, b |-> v.b,
                   e |-> IF IsSome(v.e)
                         THEN [k |-> "Cast", loc |-> eloc, ty |-> out_type, sub |-> <<v.e>>,
                               name |-> e.nty2.b.n]
                         ELSE NoneExp]])
         [] e.k = "Annotate" -> lower("value", c, block, type_(e.nty2), e.sub[1])
         [] e.k = "Unit" ->
               [c |-> c, b |-> block,
                e |-> [UnitE(eloc, IF e.trailing THEN "Trailing" ELSE "FromUser")
                          EXCEPT !.ty = out_type]]
         [] e.k = "Value" ->
               [c |-> c, b |-> block,
                e |-> [k |-> "Value", loc |-> eloc, ty |-> out_type, sub |-> <<>>,
                       val |-> e.val]]
         [] e.k = "Constant" ->
               [c |-> c, b |-> block,
                e |-> [k |-> "Constant", loc |-> eloc, ty |-> out_type, sub |-> <<>>,
                       name |-> e.name]]
         [] e.k = "Move" ->
               [c |-> c, b |-> block,
                e |-> MoveE(eloc, out_type,
                            IF e.from_user THEN "FromUser" ELSE "InferredNoCopy",
                            translate_var(e.nvar))]
         [] e.k = "Copy" ->
               [c |-> c, b |-> block,
                e |-> CopyE(eloc, out_type, e.from_user, translate_var(e.nvar))]
         [] e.k = "UnresolvedError" ->
               [c |-> IF c.has_errors THEN c ELSE Ice(c, "assert has_errors"),
                b |-> block, e |-> HExp("UnresolvedError", eloc, out_type, <<>>)]
         [] OTHER -> [c |-> Ice(c, "ICE unexpected expression"), b |-> block, e |-> NoneExp]

value_block(c, block, expected_type, seq) ==
    IF seq = <<>> THEN [c |-> c, b |-> block, e |-> NoneExp]
    ELSE
         LET last_exp == seq[Len(seq)]
         IN
         Bind([r \in {lower("statement_block", c, block, FALSE, SubSeq(seq, 1, Len(seq) - 1))} |->
            IF last_exp.k # "Seq"
            THEN [c |-> Ice(r.c, "ICE last sequence item should be an exp"), b |-> r.b,
                  e |-> NoneExp]
            ELSE lower("value", r.c, r.b, expected_type, last_exp.sub[1])])

value_list(c, block, ty, e) ==
    CASE e.k = "ExpList" ->
            LET items == e.sub
            IN
            Bind([c0 \in {IF items = <<>> THEN Ice(c, "assert !items.is_empty()") ELSE c} |->
            LET n == IF ty.k = "Multiple" THEN
                        IF Len(ty.ss) < Len(items) THEN Len(ty.ss) ELSE Len(items)
                     ELSE Len(items)
                item_exprs == [i \in 1..n |->
                                 [te |-> items[i],
                                  ty |-> IF ty.k = "Multiple" THEN TSingle(ty.ss[i])
                                         ELSE NoType]]
            IN
            Bind([exprs \in {value_evaluation_order(c0, block, item_exprs)} |->
               [c |-> exprs.c, b |-> exprs.b, es |-> exprs.es, some |-> TRUE]])])
      [] e.k = "Unit" -> [c |-> c, b |-> block, es |-> <<>>, some |-> TRUE]
      [] OTHER ->
            Bind([v \in {lower("value", c, block, ty, e)} |->
               [c |-> v.c, b |-> v.b,
                es |-> IF IsSome(v.e) THEN <<v.e>> ELSE <<>>, some |-> IsSome(v.e)]])

AddsToResultAlways(new_stmts) == TRUE

\* let adds_to_result = !new_stmts.is_empty()
adds_to_result(new_stmts) == new_stmts # <<>>

\* the loop of value_evaluation_order, over input_exps in reverse
veo_loop(c, input_exps, i, needs_binding, statements, values) ==
    IF i = 0 THEN [c |-> c, statements |-> statements, values |-> values]
    ELSE
         Bind([exp \in {lower("value", c, <<>>, input_exps[i].ty, input_exps[i].te)} |->
         Bind([e \in {IF needs_binding THEN maybe_bind_exp(exp.c, exp.b, exp.e) ELSE exp} |->
         LET final == IF IsSome(e.e) THEN e.e ELSE unit_exp(input_exps[i].te.loc)
         IN
            veo_loop(e.c, input_exps, i - 1, needs_binding \/ adds_to_result(e.b),
                     Append(statements, e.b), Append(values, final))])])

value_evaluation_order(c, block, input_exps) ==
    Bind([r \in {veo_loop(c, input_exps, Len(input_exps), FALSE, <<>>, <<>>)} |->
       [c |-> r.c, b |-> block \o Flatten(Reverse(r.statements)), es |-> Reverse(r.values)]])

builtin(c, block, e) ==
    LET targ == e.sub[1]
    IN
       CASE e.bt = "MoveTo" ->
               Bind([expected \in {type_(NTuple(<<NRef(FALSE, NApply(BuiltinB("signer"))), e.targ>>))} |->
               Bind([args \in {value_list(c, block, expected, targ)} |->
                  [c |-> args.c, b |-> args.b,
                   e |-> IF args.some
                         THEN [k |-> "Builtin", loc |-> e.loc, ty |-> NoType, sub |-> args.es,
                               bt |-> e.bt, mut |-> FALSE, b |-> base_type(e.targ)]
                         ELSE NoneExp]])])
         [] e.bt \in {"MoveFrom", "BorrowGlobal", "Exists"} ->
               Bind([args \in {value_list(c, block, NoType, targ)} |->
                  [c |-> args.c, b |-> args.b,
                   e |-> IF args.some
                         THEN [k |-> "Builtin", loc |-> e.loc, ty |-> NoType, sub |-> args.es,
                               bt |-> e.bt, mut |-> e.mut, b |-> base_type(e.targ)]
                         ELSE NoneExp]])
         [] e.bt = "Freeze" ->
               Bind([v \in {lower("value", c, block, NoType, targ)} |->
                  [c |-> v.c, b |-> v.b,
                   e |-> IF IsSome(v.e) THEN HExp("Freeze", e.loc, NoType, <<v.e>>)
                         ELSE NoneExp]])
         [] OTHER -> [c |-> Ice(c, "unreachable!()"), b |-> block, e |-> NoneExp]

value_statement(c, block, e) ==
    Bind([exp \in {lower("value", c, block, NoType, e)} |->
       [c |-> exp.c, b |-> make_ignore_and_pop(exp.b, exp.e)]])

statement(c, block, e) ==
    LET eloc == e.loc
    IN
       CASE e.k = "IfElse" ->
               Bind([cond \in {lower("value", c, block, tbool, e.sub[1])} |->
               Bind([conseq \in {lower("statement", cond.c, <<>>, NoType, e.sub[2])} |->
               Bind([alt \in {lower("statement", conseq.c, <<>>, NoType, e.sub[3])} |->
                  [c |-> alt.c,
                   b |-> IF IsSome(cond.e)
                         THEN Append(cond.b, IfElseS(eloc, cond.e, conseq.b, alt.b))
                         ELSE cond.b]])])])
         [] e.k = "While" ->
               LET name == translate_var(e.nvar)
                   c1 == record_named_block_binders(c, name, <<>>)
                   c2 == record_named_block_type(c1, name, tunit)
               IN
               Bind([cond \in {lower("value", c2, <<>>, tbool, e.sub[1])} |->
               Bind([body \in {lower("statement", cond.c, <<>>, NoType, e.sub[2])} |->
                  [c |-> body.c,
                   b |-> IF IsSome(cond.e)
                         THEN Append(block, [k |-> "While", loc |-> eloc,
                                             sub |-> <<cond.e>>, var |-> name,
                                             cond_block |-> cond.b, block |-> body.b])
                         ELSE block \o cond.b]])])
         [] e.k = "Loop" ->
               LET name == translate_var(e.nvar)
                   out_type == type_(e.nty)
               IN
               Bind([mb \in {make_binders(c, eloc, out_type)} |->
               LET unused_binders == mb.binders # <<>> /\ e.has_break
                   c1 == record_named_block_binders(mb.c, name, mb.binders)
                   c2 == record_named_block_type(c1, name, out_type)
               IN
               Bind([body \in {process_loop_body(c2, e.sub[1])} |->
               LET block1 == Append(block, [k |-> "Loop", loc |-> eloc, sub |-> <<>>,
                                            var |-> name, has_break |-> e.has_break,
                                            block |-> body.b])
               IN
                  IF unused_binders
                  THEN [c |-> add_diag(body.c,
                                [k |-> "LoopBreakValue",
                                 labels |-> <<[loc |-> eloc,
                                               msg |-> "This loop's breaks value(s) are unused"]>>]),
                        b |-> make_ignore_and_pop(block1, mb.e)]
                  ELSE [c |-> body.c, b |-> block1]])])
         [] e.k = "Block" -> lower("statement_block", c, block, TRUE, e.seq)
         [] e.k = "Return" ->
               LET expected == IF c.signature = NoSignature THEN NoType
                               ELSE c.signature[1].return_type
               IN
               Bind([rhs \in {lower("value", c, block, expected, e.sub[1])} |->
                  [c |-> rhs.c,
                   b |-> IF IsSome(rhs.e)
                         THEN Append(rhs.b, [k |-> "Return", loc |-> eloc, sub |-> <<rhs.e>>,
                                             from_user |-> TRUE])
                         ELSE rhs.b]])
         [] e.k = "Abort" ->
               Bind([rhs \in {lower("value", c, block, NoType, e.sub[1])} |->
                  [c |-> rhs.c,
                   b |-> IF IsSome(rhs.e)
                         THEN Append(rhs.b, make_command(eloc, "Abort", <<rhs.e>>))
                         ELSE rhs.b]])
         [] e.k = "Give" ->
               LET out_name == translate_var(e.nvar)
                   bind_ty == lookup_named_block_type(c, out_name)
               IN
               Bind([rhs \in {lower("value", c, block, bind_ty, e.sub[1])} |->
               LET c1 == IF has_named_block_binders(rhs.c, out_name) THEN rhs.c
                         ELSE Ice(rhs.c, "ICE named block with no binders")
                   binders == lookup_named_block_binders(c1, out_name)
               IN
               Bind([bound \in {IF binders = <<>>
                                THEN [c |-> c1, b |-> make_ignore_and_pop(rhs.b, rhs.e)]
                                ELSE bind_value_in_block(c1, binders, bind_ty, rhs.b, rhs.e)} |->
                  [c |-> bound.c,
                   b |-> Append(bound.b, [k |-> "Break", loc |-> eloc, sub |-> <<>>,
                                          var |-> out_name])]])])
         [] e.k = "Continue" ->
               [c |-> c,
                b |-> Append(block, [k |-> "Continue", loc |-> eloc, sub |-> <<>>,
                                     var |-> translate_var(e.nvar)])]
         [] e.k = "Assign" ->
               Bind([rhs \in {lower("value", c, block, expected_types(e.ntys), e.sub[1])} |->
                  IF IsSome(rhs.e) THEN make_assignments(rhs.c, rhs.b, eloc, e.lvs, rhs.e)
                  ELSE [c |-> rhs.c, b |-> rhs.b]])
         [] e.k = "Mutate" ->
               Bind([rhs \in {lower("value", c, block, NoType, e.sub[2])} |->
               Bind([lhs \in {lower("value", rhs.c, rhs.b, NoType, e.sub[1])} |->
                  [c |-> lhs.c,
                   b |-> IF IsSome(lhs.e) /\ IsSome(rhs.e)
                         THEN Append(lhs.b, make_command(eloc, "Mutate", <<lhs.e, rhs.e>>))
                         ELSE lhs.b]])])
         [] e.k \in {"Value", "Unit"} -> [c |-> c, b |-> block]
         [] OTHER -> value_statement(c, block, e)

\* the loop of statement_block over the sequence items
statement_block_from(c, block, seq, has_trailing_unit, last_ndx, i) ==
    IF i > Len(seq) THEN [c |-> c, b |-> block]
    ELSE
    LET item == seq[i]
        ndx == i - 1
    IN
    Bind([r \in {CASE item.k = "Seq" /\ ndx = last_ndx /\ has_trailing_unit ->
                        IF block # <<>> /\ divergent(block[Len(block)])
                        THEN [c |-> emit_trailing_semicolon_error(c, block[Len(block)].loc,
                                                                  item.sub[1].loc),
                              b |-> block]
                        ELSE lower("statement", c, block, NoType, item.sub[1])
                   [] item.k = "Seq" -> lower("statement", c, block, NoType, item.sub[1])
                   [] item.k = "Declare" ->
                        [c |-> declare_bind_list(c, item.lvs), b |-> block]
                   [] OTHER ->
                        Bind([rhs \in {lower("value", c, block, expected_types(item.ntys), item.sub[1])} |->
                           IF IsSome(rhs.e)
                           THEN make_assignments(declare_bind_list(rhs.c, item.lvs), rhs.b,
                                                 item.loc, item.lvs, rhs.e)
                           ELSE [c |-> rhs.c, b |-> rhs.b]])} |->
       statement_block_from(r.c, r.b, seq, has_trailing_unit, last_ndx, i + 1)])

statement_block(c, block, seq, stmt_pos) ==
    statement_block_from(c, block, seq, stmt_pos /\ trailing_unit(seq),
                         IF Len(seq) = 0 THEN 0 ELSE Len(seq) - 1, 1)

(***************************************************************************)
(* Binary operators                                                        *)
(***************************************************************************)
maybe_make_binop(lhs, op, rhs, ty, eloc) ==
    IF IsSome(lhs) /\ IsSome(rhs)
    THEN [k |-> "BinopExp", loc |-> eloc, ty |-> ty, sub |-> <<lhs, rhs>>, op |-> op]
    ELSE NoneExp

make_boolean_binop(c, loc, test, if_, else_) ==
    Bind([mb \in {make_binders(c, loc, tbool)} |->
    Bind([if_bind \in {bind_value_in_block(mb.c, mb.binders, tbool, if_.b, if_.e)} |->
    Bind([else_bind \in {bind_value_in_block(if_bind.c, mb.binders, tbool, else_.b, else_.e)} |->
    LET c1 == IF if_bind.bound \/ else_bind.bound THEN else_bind.c
              ELSE Ice(else_bind.c, "ICE boolean binop processing failure")
    IN
       IF IsSome(test.e)
       THEN [c |-> c1, b |-> Append(test.b, IfElseS(loc, test.e, if_bind.b, else_bind.b)),
             e |-> mb.e]
       ELSE [c |-> c1, b |-> test.b, e |-> NoneExp]])])])

SimpleBoolBinopArgAlways(arg) == TRUE

simple_bool_binop_arg(arg) ==
    IF arg.b # <<>> THEN FALSE
    ELSE IF IsSome(arg.e)
         THEN arg.e.k \in {"Value", "Constant", "Move", "Copy", "UnresolvedError"}
         ELSE FALSE

\* the first loop of process_binops: work_queue entries are [te, ty]
binops_forward(c, work_queue, pn_stack) ==
    IF work_queue = <<>> THEN [c |-> c, pn_stack |-> pn_stack]
    ELSE
         LET top == work_queue[Len(work_queue)]
             rest == SubSeq(work_queue, 1, Len(work_queue) - 1)
         IN
            IF top.te.k = "BinopExp"
            THEN
                 LET op_type == freeze_ty(type_(top.te.op_type))
                 IN
                    binops_forward(c,
                        rest \o << [te |-> top.te.sub[2], ty |-> op_type],
                                   [te |-> top.te.sub[1], ty |-> op_type] >>,
                        Append(pn_stack, [k |-> "Op", op |-> top.te.op, ty |-> top.ty,
                                          loc |-> top.te.op_loc, eloc |-> top.te.loc]))
            ELSE
                 Bind([exp \in {lower("value", c, <<>>, top.ty, top.te)} |->
                    binops_forward(exp.c, rest,
                        Append(pn_stack, [k |-> "Val", b |-> exp.b, e |-> exp.e]))])

\* lhs_block.append(&mut rhs_block) and the BinopExp of the plain-operator arm
plain_binop(c, entry, lhs, rhs) ==
    [c |-> c, b |-> lhs.b \o rhs.b,
     e |-> maybe_make_binop(lhs.e, entry.op, rhs.e, entry.ty, entry.eloc)]

\* the second loop of process_binops, over pn_stack in reverse
RECURSIVE binops_reverse(_, _, _, _)
binops_reverse(c, pn_stack, i, value_stack) ==
    IF i = 0 THEN [c |-> c, value_stack |-> value_stack]
    ELSE
    LET entry == pn_stack[i]
        n == Len(value_stack)
    IN
       IF entry.k = "Val"
       THEN binops_reverse(c, pn_stack, i - 1,
                           Append(value_stack, [b |-> entry.b, e |-> entry.e]))
       ELSE IF n < 2
       THEN [c |-> Ice(c, "ICE binop hlir issue"), value_stack |-> value_stack]
       ELSE
       LET first == value_stack[n]
           second == value_stack[n - 1]
           rest == SubSeq(value_stack, 1, n - 2)
       IN
       Bind([r \in {CASE entry.op = "And" ->
                           IF IsSome(first.e) /\ simple_bool_binop_arg(second)
                           THEN [c |-> c, b |-> first.b \o second.b,
                                 e |-> maybe_make_binop(first.e, entry.op, second.e,
                                                        entry.ty, entry.eloc)]
                           ELSE make_boolean_binop(c, entry.loc, first, second,
                                                   [b |-> <<>>, e |-> bool_exp(entry.loc, FALSE)])
                      [] entry.op = "Or" ->
                           IF IsSome(first.e) /\ simple_bool_binop_arg(second)
                           THEN [c |-> c, b |-> first.b \o second.b,
                                 e |-> maybe_make_binop(first.e, entry.op, second.e,
                                                        entry.ty, entry.eloc)]
                           ELSE make_boolean_binop(c, entry.loc, first,
                                                   [b |-> <<>>, e |-> bool_exp(entry.loc, TRUE)],
                                                   second)
                      [] OTHER -> plain_binop(c, entry, first, second)} |->
          binops_reverse(r.c, pn_stack, i - 1, Append(rest, [b |-> r.b, e |-> r.e]))])

process_binops(c, input_block, result_type, e) ==
    Bind([fwd \in {binops_forward(c, <<[te |-> e, ty |-> result_type]>>, <<>>)} |->
    Bind([rev \in {binops_reverse(fwd.c, fwd.pn_stack, Len(fwd.pn_stack), <<>>)} |->
       IF Len(rev.value_stack) # 1
       THEN [c |-> Ice(rev.c, "ICE binop hlir stack unprocessed"), b |-> input_block,
             e |-> NoneExp]
       ELSE [c |-> rev.c, b |-> input_block \o rev.value_stack[1].b,
             e |-> rev.value_stack[1].e]])])

\* the call of one of the mutually recursive lowering functions: arg is the
\* expected type (stmt_pos for statement_block), x the expression or sequence
lower(fn, c, block, arg, x) ==
    CASE fn = "tail" -> tail(c, block, arg, x)
      [] fn = "tail_block" -> tail_block(c, block, arg, x)
      [] fn = "value" -> value(c, block, arg, x)
      [] fn = "value_block" -> value_block(c, block, arg, x)
      [] fn = "statement" -> statement(c, block, x)
      [] fn = "statement_block" -> statement_block(c, block, x, arg)
      [] OTHER -> process_binops(c, block, arg, x)

(***************************************************************************)
(* Entry: program, module, function, constant, struct                      *)
(***************************************************************************)
body(c, expected_type, loc, seq) ==
    IF seq = <<>> THEN [c |-> c, b |-> <<>>, e |-> unit_exp(loc)]
    ELSE tail_block(c, <<>>, expected_type, seq)

RECURSIVE bind_parameters(_, _, _)
bind_parameters(c, parameters, i) ==
    IF i > Len(parameters) THEN c
    ELSE bind_parameters(bind_local(c, parameters[i].nvar, single_type(parameters[i].nty)),
                         parameters, i + 1)

function_signature(c, sig) ==
    [c |-> bind_parameters(c, sig.parameters, 1),
     sig |-> [parameters |-> [i \in 1..Len(sig.parameters) |->
                                 [var |-> translate_var(sig.parameters[i].nvar),
                                  sty |-> single_type(sig.parameters[i].nty)]],
              return_type |-> type_(sig.return_type)]]

\* function_body_defined without the synthetic return
FunctionBodyDefinedNoReturn(c, signature, loc, seq) ==
    Bind([r \in {body([c EXCEPT !.signature = <<signature>>],
                      signature.return_type, loc, seq)} |->
    Bind([x \in {extract_function_locals(r.c)} |->
       [c |-> exit_function(x.c), locals |-> x.locals, body |-> r.b]])])

function_body_defined(c, signature, loc, seq) ==
    LET c1 == [c EXCEPT !.signature = <<signature>>]
    IN
    Bind([r \in {body(c1, signature.return_type, loc, seq)} |->
    LET body_ == IF IsSome(r.e)
                 THEN Append(r.b, [k |-> "Return", loc |-> r.e.loc, sub |-> <<r.e>>,
                                   from_user |-> FALSE])
                 ELSE r.b
    IN
    Bind([x \in {extract_function_locals(r.c)} |->
       [c |-> exit_function(x.c), locals |-> x.locals, body |-> body_]])])

function_body(c, sig, tb) ==
    IF tb.k = "Native"
    THEN [c |-> extract_function_locals(c).c, k |-> "Native", loc |-> tb.loc,
          locals |-> EmptyMap, body |-> <<>>]
    ELSE
         Bind([r \in {function_body_defined(c, sig, tb.loc, tb.seq)} |->
            [c |-> r.c, k |-> "Defined", loc |-> tb.loc, locals |-> r.locals,
             body |-> r.body]])

visibility(evisibility) == IF evisibility = "Package" THEN "Friend" ELSE evisibility

function(c, name, f) ==
    LET c0 == IF has_empty_locals(c) THEN c ELSE Ice(c, "assert has_empty_locals")
        c1 == IF c0.tmp_counter = 0 THEN c0 ELSE Ice(c0, "assert tmp_counter == 0")
        c2 == add_warning_filter_scope(c1, f.warning_filter)
    IN
    Bind([sig \in {function_signature(c2, f.signature)} |->
    Bind([fb \in {function_body(sig.c, sig.sig, f.body)} |->
       [c |-> pop_warning_filter_scope(fb.c),
        f |-> [name |-> name, visibility |-> visibility(f.visibility),
               signature |-> sig.sig, k |-> fb.k, locals |-> fb.locals,
               body |-> fb.body]]])])

constant(c, name, cdef) ==
    LET c1 == add_warning_filter_scope(c, cdef.warning_filter)
        signature == base_type(cdef.signature)
        tseq == <<[k |-> "Seq", loc |-> cdef.value.loc, sub |-> <<cdef.value>>]>>
        fsig == [parameters |-> <<>>, return_type |-> TSingle(SBase(signature))]
    IN
    Bind([r \in {function_body_defined(c1, fsig, cdef.loc, tseq)} |->
       [c |-> pop_warning_filter_scope(r.c),
        k |-> [name |-> name, b |-> signature, locals |-> r.locals, body |-> r.body]]])

struct_fields(tfields) ==
    Bind([indexed_fields \in {sort_by_idx([i \in 1..Len(tfields) |->
                                  [idx |-> tfields[i].idx, name |-> tfields[i].name,
                                   loc |-> tfields[i].loc, b |-> base_type(tfields[i].nty)]])} |->
       [i \in 1..Len(indexed_fields) |->
           [name |-> indexed_fields[i].name, loc |-> indexed_fields[i].loc,
            b |-> indexed_fields[i].b]]])

struct_def(c, name, sdef) ==
    LET c1 == add_warning_filter_scope(c, sdef.warning_filter)
    IN
       [c |-> pop_warning_filter_scope(c1),
        s |-> [name |-> name, warning_filter |-> sdef.warning_filter,
               native |-> sdef.native,
               sfields |-> IF sdef.native THEN <<>> ELSE struct_fields(sdef.sfields)]]

\* the inner loop of gen_unused_warnings over the fields of one struct
RECURSIVE unused_field_warnings(_, _, _, _)
unused_field_warnings(c, sname, sfields, i) ==
    IF i > Len(sfields) THEN c
    ELSE unused_field_warnings(
             IF <<sname, sfields[i].name>> \notin c.used_fields
             THEN add_diag(c, [k |-> "StructField",
                               labels |-> <<[loc |-> sfields[i].loc,
                                             msg |-> "The field of the type is unused"]>>,
                               field |-> sfields[i].name, struct |-> sname])
             ELSE c,
             sname, sfields, i + 1)

\* the outer loop of gen_unused_warnings over the structs of the module
RECURSIVE unused_struct_warnings(_, _, _)
unused_struct_warnings(c, structs, i) ==
    IF i > Len(structs) THEN c
    ELSE
         LET c1 == add_warning_filter_scope(c, structs[i].warning_filter)
         IN
         Bind([c2 \in {IF structs[i].native THEN c1
                       ELSE unused_field_warnings(c1, structs[i].name, structs[i].sfields, 1)} |->
            unused_struct_warnings(pop_warning_filter_scope(c2), structs, i + 1)])

gen_unused_warnings(c, is_source_module, structs) ==
    IF ~is_source_module THEN c ELSE unused_struct_warnings(c, structs, 1)

\* add_struct_fields of Context::new: the field -> index map of one struct
struct_field_indices(sfields) ==
    [f \in {sfields[j].name : j \in 1..Len(sfields)} |->
        sfields[CHOOSE j \in 1..Len(sfields) : sfields[j].name = f].idx]

\* the structs map built by Context::new from prog.modules (native structs
\* are skipped)
program_structs(p) ==
    LET keys == UNION {{<<p.modules[m].ident, p.modules[m].structs[i].name>> :
                          i \in {j \in 1..Len(p.modules[m].structs) :
                                    ~p.modules[m].structs[j].native}} :
                       m \in 1..Len(p.modules)}
        sdef(key) == LET m == CHOOSE m \in 1..Len(p.modules) : p.modules[m].ident = key[1]
                         i == CHOOSE i \in 1..Len(p.modules[m].structs) :
                                  p.modules[m].structs[i].name = key[2]
                     IN
                        p.modules[m].structs[i]
    IN
       [key \in keys |-> struct_field_indices(sdef(key).sfields)]

(***************************************************************************)
(* The driver: `program` creates the Context and maps `module` over the    *)
(* modules; `module` runs struct_def, constant and function over the items *)
(* of the module, then gen_unused_warnings.                                *)
(***************************************************************************)
\* the position after the items of phase `at` of module m are exhausted
RECURSIVE first_position(_, _, _)
first_position(p, m, at) ==
    LET md == p.modules[m]
    IN
       CASE at = "structs" ->
               IF md.structs # <<>> THEN [m |-> m, at |-> at, i |-> 1]
               ELSE first_position(p, m, "constants")
         [] at = "constants" ->
               IF md.constants # <<>> THEN [m |-> m, at |-> at, i |-> 1]
               ELSE first_position(p, m, "functions")
         [] at = "functions" ->
               IF md.functions # <<>> THEN [m |-> m, at |-> at, i |-> 1]
               ELSE first_position(p, m, "unused")
         [] OTHER -> [m |-> m, at |-> IF md.is_script THEN "exit" ELSE "unused", i |-> 0]

next_position(p, m, at, i, items, following) ==
    IF i < Len(items) THEN [m |-> m, at |-> at, i |-> i + 1]
    ELSE first_position(p, m, following)

EmptyModule(md) ==
    [ident |-> md.ident, is_source_module |-> md.is_source_module,
     is_script |-> md.is_script,
     structs |-> <<>>, constants |-> <<>>, functions |-> <<>>]

\* a failed assertion, unwrap or expect is a panic: it ends the pass
Running == context.ice = <<>>

\* module and script: context.env.add_warning_filter_scope(warning_filter)
ModuleEnter ==
    /\ pc.at = "enter"
    /\ Running
    /\ context' = add_warning_filter_scope(context, prog.modules[pc.m].warning_filter)
    /\ out' = Append(out, EmptyModule(prog.modules[pc.m]))
    /\ pc' = first_position(prog, pc.m, "structs")
    /\ UNCHANGED prog

\* module: tstructs.map(|name, s| struct_def(context, name, s)), one struct
StructDef ==
    /\ pc.at = "structs"
    /\ Running
    /\ \E md \in {prog.modules[pc.m]} :
          \E r \in {struct_def(context, md.structs[pc.i].name, md.structs[pc.i])} :
             /\ context' = r.c
             /\ out' = [out EXCEPT ![pc.m].structs = Append(@, r.s)]
             /\ pc' = next_position(prog, pc.m, "structs", pc.i, md.structs, "constants")
    /\ UNCHANGED prog

\* module: tconstants.map(|name, c| constant(context, name, c)), one constant
Constant ==
    /\ pc.at = "constants"
    /\ Running
    /\ \E md \in {prog.modules[pc.m]} :
          \E r \in {constant(context, md.constants[pc.i].name, md.constants[pc.i])} :
             /\ context' = r.c
             /\ out' = [out EXCEPT ![pc.m].constants = Append(@, r.k)]
             /\ pc' = next_position(prog, pc.m, "constants", pc.i, md.constants, "functions")
    /\ UNCHANGED prog

\* module: tfunctions.map(|name, f| function(context, name, f)), one function
Function ==
    /\ pc.at = "functions"
    /\ Running
    /\ \E md \in {prog.modules[pc.m]} :
          \E r \in {function(context, md.functions[pc.i].name, md.functions[pc.i])} :
             /\ context' = r.c
             /\ out' = [out EXCEPT ![pc.m].functions = Append(@, r.f)]
             /\ pc' = next_position(prog, pc.m, "functions", pc.i, md.functions, "unused")
    /\ UNCHANGED prog

\* module: gen_unused_warnings(context, is_source_module, &structs)
GenUnusedWarnings ==
    /\ pc.at = "unused"
    /\ Running
    /\ context' = gen_unused_warnings(context, prog.modules[pc.m].is_source_module,
                                      out[pc.m].structs)
    /\ pc' = [m |-> pc.m, at |-> "exit", i |-> 0]
    /\ UNCHANGED <<prog, out>>

\* module and script: context.env.pop_warning_filter_scope(), and the next
\* module or script
ModuleExit ==
    /\ pc.at = "exit"
    /\ Running
    /\ context' = pop_warning_filter_scope(context)
    /\ pc' = IF pc.m < Len(prog.modules) THEN [m |-> pc.m + 1, at |-> "enter", i |-> 0]
             ELSE [m |-> pc.m, at |-> "done", i |-> 0]
    /\ UNCHANGED <<prog, out>>

(***************************************************************************)
(* Input programs.  The typed programs handed to `program` are drawn from  *)
(* bounded families of well-typed T-AST, and of T-AST with a type error    *)
(* that typing has reported (has_errors).                                  *)
(***************************************************************************)
MaxOperands == 3    \* leaves of a binary-operator tree
MaxArgs == 3        \* arguments of a module call
MaxFields == 2      \* fields of a packed struct
MaxSeqItems == 3    \* items of a sequence before its last item
MaxFunctions == 3   \* functions of a module
MaxModules == 2     \* modules of a program

TValue(loc, nty, val) ==
    [k |-> "Value", loc |-> loc, nty |-> nty, sub |-> <<>>, val |-> val]

TUnit(loc, trailing) ==
    [k |-> "Unit", loc |-> loc, nty |-> NUnit, sub |-> <<>>, trailing |-> trailing]

TCopy(loc, nvar, nty) ==
    [k |-> "Copy", loc |-> loc, nty |-> nty, sub |-> <<>>, from_user |-> FALSE,
     nvar |-> nvar]

TMove(loc, nvar, nty) ==
    [k |-> "Move", loc |-> loc, nty |-> nty, sub |-> <<>>, from_user |-> FALSE,
     nvar |-> nvar]

TBorrowLocal(loc, mut, nvar, inner) ==
    [k |-> "BorrowLocal", loc |-> loc, nty |-> NRef(mut, inner), sub |-> <<>>,
     mut |-> mut, nvar |-> nvar]

TExpList(loc, es) ==
    [k |-> "ExpList", loc |-> loc, nty |-> NTuple([i \in 1..Len(es) |-> es[i].nty]),
     sub |-> es, ntys |-> [i \in 1..Len(es) |-> es[i].nty]]

\* the arguments of a call: unit, the single argument, or an ExpList
TArgs(loc, es) ==
    IF es = <<>> THEN TUnit(loc, FALSE)
    ELSE IF Len(es) = 1 THEN es[1] ELSE TExpList(loc, es)

TCall(loc, name, nty, nparams, es) ==
    [k |-> "ModuleCall", loc |-> loc, nty |-> nty, sub |-> <<TArgs(loc, es)>>,
     mod |-> "M", name |-> name, targs |-> <<>>, nparams |-> nparams]

TBinop(loc, op, nty, op_type, lhs, rhs) ==
    [k |-> "BinopExp", loc |-> loc, nty |-> nty, sub |-> <<lhs, rhs>>,
     op |-> op, op_loc |-> loc, op_type |-> op_type]

TSeq(e) == [k |-> "Seq", loc |-> e.loc, sub |-> <<e>>]

TVarL(loc, nvar, nty) == [k |-> "Var", loc |-> loc, nvar |-> nvar, nty |-> nty]

TBind(loc, lvs, e) ==
    [k |-> "Bind", loc |-> loc, lvs |-> lvs, sub |-> <<e>>,
     ntys |-> [i \in 1..Len(lvs) |-> lvs[i].nty]]

TBlock(loc, nty, seq) ==
    [k |-> "Block", loc |-> loc, nty |-> nty, sub |-> <<>>, seq |-> seq]

TAssign(loc, lvs, rhs) ==
    [k |-> "Assign", loc |-> loc, nty |-> NUnit, sub |-> <<rhs>>, lvs |-> lvs,
     ntys |-> [i \in 1..Len(lvs) |-> lvs[i].nty]]

TAbort(loc) ==
    [k |-> "Abort", loc |-> loc, nty |-> NAnything, sub |-> <<TValue(loc, NU64, 0)>>]

TReturn(loc, e) == [k |-> "Return", loc |-> loc, nty |-> NAnything, sub |-> <<e>>]

TIfElse(loc, nty, test, conseq, alt) ==
    [k |-> "IfElse", loc |-> loc, nty |-> nty, sub |-> <<test, conseq, alt>>]

\* the names of the called functions: the call at position i of a program
\* calls its own function, so that a call is recognised in an execution
CallName(i) == "c" \o Digit(i)

VarX == NVar(<<"x">>, 0, 0)

\* Operand kinds: a pure copy of the parameter x, an inline call, a call
\* whose argument is simple (read(&mut x)), a block that assigns x from a
\* call and yields x (it hoists a statement), and an abort (it diverges)
OperandKinds == {"Pure", "Call", "Hoist", "Abort"}

ArgKinds == {"Pure", "Call", "Read", "Hoist"}

Operand(kind, i) ==
    CASE kind = "Pure" -> TCopy(i, VarX, NBool)
      [] kind = "Call" -> TCall(i, CallName(i), NBool, <<>>, <<>>)
      [] kind = "Read" ->
            TCall(i, CallName(i), NBool, <<NRef(TRUE, NBool)>>,
                  <<TBorrowLocal(i, TRUE, VarX, NBool)>>)
      [] kind = "Hoist" ->
            TBlock(i, NBool,
                   << TSeq(TAssign(i, <<TVarL(i, VarX, NBool)>>,
                                   TCall(i, CallName(i), NBool, <<>>, <<>>))),
                      TSeq(TCopy(i, VarX, NBool)) >>)
      [] OTHER -> TAbort(i)

BinOps == {"And", "Or", "Eq"}

\* the binary-operator trees over the operands first..last, kinds[i] being
\* the kind of operand i
RECURSIVE BinopTrees(_, _, _)
BinopTrees(kinds, first, last) ==
    IF first = last THEN {Operand(kinds[first], first)}
    ELSE UNION { { TBinop(split, op, NBool, NBool, l, r) :
                     op \in BinOps,
                     l \in BinopTrees(kinds, first, split),
                     r \in BinopTrees(kinds, split + 1, last) } :
                 split \in first..(last - 1) }

TFunction(name, parameters, return_type, seq) ==
    [name |-> name, warning_filter |-> "function", visibility |-> "Public",
     signature |-> [parameters |-> parameters, return_type |-> return_type],
     body |-> [k |-> "Defined", loc |-> 0, seq |-> seq]]

TModule(ident, is_source_module, structs, constants, functions) ==
    [ident |-> ident, warning_filter |-> "module", is_script |-> FALSE,
     is_source_module |-> is_source_module,
     structs |-> structs, constants |-> constants, functions |-> functions]

\* T::Script: its constants and its one function.  The scripts of a program
\* follow its modules in prog.modules, as `program` lowers them
TScript(constants, function_name, tfunction) ==
    [ident |-> function_name, warning_filter |-> "script", is_script |-> TRUE,
     is_source_module |-> TRUE,
     structs |-> <<>>, constants |-> constants, functions |-> <<tfunction>>]

ParamX == [nvar |-> VarX, nty |-> NBool]

\* fun f(x: bool): bool { t }
BinopProgram(t) ==
    [modules |-> <<TModule("M", TRUE, <<>>, <<>>,
                           <<TFunction("f", <<ParamX>>, NBool, <<TSeq(t)>>)>>)>>]

\* f(a1, ..., an), every parameter of f being a bool
CallBodies ==
    UNION { { <<TSeq(TCall(0, "f", NBool, [i \in 1..n |-> NBool],
                           [i \in 1..n |-> Operand(kinds[i], i)]))>> :
              kinds \in [1..n -> ArgKinds] } :
            n \in 0..MaxArgs }

CallPrograms ==
    { [modules |-> <<TModule("M", TRUE, <<>>, <<>>,
                             <<TFunction("f", <<ParamX>>, NBool, seq)>>)>>] :
      seq \in CallBodies }

TLoop(loc, nty, nvar, has_break, loop_body) ==
    [k |-> "Loop", loc |-> loc, nty |-> nty, sub |-> <<loop_body>>, nvar |-> nvar,
     has_break |-> has_break]

TGive(loc, nvar, rhs) ==
    [k |-> "Give", loc |-> loc, nty |-> NAnything, sub |-> <<rhs>>, nvar |-> nvar]

\* the variable declared by the `let` at position i, and the label of the
\* loop at position i
VarY(i) == NVar(<<"y">>, i, 0)

VarZ(i) == NVar(<<"z">>, i, 0)

Label(i) == NVar(<<"l">>, i, 0)

\* Sequence items: return, abort, a call, a let with a value, a let whose
\* initializer diverges, an assignment to the variable of the nearest let
\* before it, and a loop whose break value diverges
ItemKinds == {"Return", "Abort", "Call", "LetValue", "LetAbort", "Use", "BreakAbort"}

IsLet(kind) == kind \in {"LetValue", "LetAbort"}

\* the position of the nearest let before position i (0 when there is none)
LastLet(kinds, i) ==
    IF \E j \in 1..(i - 1) : IsLet(kinds[j])
    THEN CHOOSE j \in 1..(i - 1) :
             IsLet(kinds[j]) /\ \A h \in (j + 1)..(i - 1) : ~IsLet(kinds[h])
    ELSE 0

Item(kinds, i) ==
    CASE kinds[i] = "Return" -> TSeq(TReturn(i, TUnit(i, FALSE)))
      [] kinds[i] = "Abort" -> TSeq(TAbort(i))
      [] kinds[i] = "Call" -> TSeq(TCall(i, CallName(i), NBool, <<>>, <<>>))
      [] kinds[i] = "LetValue" ->
            TBind(i, <<TVarL(i, VarY(i), NBool)>>, TValue(i, NBool, 1))
      [] kinds[i] = "LetAbort" ->
            TBind(i, <<TVarL(i, VarY(i), NBool)>>, TAbort(i))
      [] kinds[i] = "Use" ->
            TSeq(TAssign(i, <<TVarL(i, VarY(LastLet(kinds, i)), NBool)>>,
                         TValue(i, NBool, 0)))
      [] OTHER ->
            TSeq(TLoop(i, NUnit, Label(i), TRUE,
                       TBlock(i, NAnything, <<TSeq(TGive(i, Label(i), TAbort(i)))>>)))

\* a variable is used only after its let
WellScoped(kinds) ==
    \A i \in DOMAIN kinds : kinds[i] = "Use" => LastLet(kinds, i) # 0

\* fun f(x: bool) { item; ...; item; }: the sequence ends with the trailing
\* unit of its last `;`
SequenceProgram(kinds) ==
    [modules |-> <<TModule("M", TRUE, <<>>, <<>>,
                           <<TFunction("f", <<ParamX>>, NUnit,
                                       [i \in 1..Len(kinds) |-> Item(kinds, i)]
                                           \o <<TSeq(TUnit(Len(kinds) + 1, TRUE))>>)>>)>>]

TStructField(name, idx, nty, loc) == [name |-> name, idx |-> idx, nty |-> nty, loc |-> loc]

TStruct(name, sfields) ==
    [name |-> name, warning_filter |-> "struct", native |-> FALSE, sfields |-> sfields]

FieldName(i) == CASE i = 1 -> "a" [] i = 2 -> "b" [] i = 3 -> "c" [] i = 4 -> "d" [] OTHER -> "e"

\* struct S of module m with n bool fields a, b, ... declared in that order;
\* each field has its own location
StructS(m, n) ==
    TStruct("S", [i \in 1..n |-> TStructField(FieldName(i), i - 1, NBool, 10 * m + i)])

NStructS(mident) == NApply(StructB(mident, "S"))

\* S { ... }: field i is given by the expression exps[i], which is at
\* position exp_idxs[i] in the source
TPack(loc, mident, exp_idxs, exps) ==
    [k |-> "Pack", loc |-> loc, nty |-> NStructS(mident), sub |-> exps,
     mod |-> mident, name |-> "S", targs |-> <<>>,
     pfields |-> [i \in 1..Len(exps) |->
                    [name |-> FieldName(i), exp_idx |-> exp_idxs[i], nty |-> NBool]]]

SourceOrders(n) == {p \in [1..n -> 1..n] : \A i, j \in 1..n : p[i] = p[j] => i = j}

FieldKinds == {"Pure", "Call", "Hoist"}

\* S { ... } with the fields written in the source order given by perm:
\* field i is written at position perm[i]
PackBodies(n) ==
    { <<TSeq(TPack(0, "M", [i \in 1..n |-> perm[i] - 1],
                   [i \in 1..n |-> Operand(kinds[perm[i]], perm[i])]))>> :
      perm \in SourceOrders(n), kinds \in [1..n -> FieldKinds] }

PackPrograms ==
    UNION { { [modules |-> <<TModule("M", TRUE, <<StructS(1, n)>>, <<>>,
                                     <<TFunction("f", <<ParamX>>, NStructS("M"), seq)>>)>>] :
              seq \in PackBodies(n) } :
            n \in 1..MaxFields }

VarR == NVar(<<"r">>, 0, 0)

VarS == NVar(<<"s">>, 0, 0)

ParamR == [nvar |-> VarR, nty |-> NRef(TRUE, NU64)]

ParamS == [nvar |-> VarS, nty |-> NRef(FALSE, NU64)]

\* an expression and the type expected of it: a mutable reference where a
\* mutable or an immutable one is expected, an immutable reference, a bool
RefKinds == {"MutToMut", "MutToImm", "ImmToImm", "Bool"}

RefExp(kind, i) ==
    CASE kind \in {"MutToMut", "MutToImm"} -> TCopy(i, VarR, NRef(TRUE, NU64))
      [] kind = "ImmToImm" -> TCopy(i, VarS, NRef(FALSE, NU64))
      [] OTHER -> TCopy(i, VarX, NBool)

RefExpected(kind) ==
    CASE kind = "MutToMut" -> NRef(TRUE, NU64)
      [] kind \in {"MutToImm", "ImmToImm"} -> NRef(FALSE, NU64)
      [] OTHER -> NBool

\* g(a1, ..., an), the parameters of g having the expected types
RefCallBodies ==
    UNION { { <<TSeq(TCall(0, "g", NBool, [i \in 1..n |-> RefExpected(kinds[i])],
                           [i \in 1..n |-> RefExp(kinds[i], i)]))>> :
              kinds \in [1..n -> RefKinds] } :
            n \in 1..MaxArgs }

\* let (y1, y2): (T1, T2) = (e1, e2);
RefTupleBodies ==
    { << TBind(0, [i \in 1..2 |-> TVarL(i, VarY(i), RefExpected(kinds[i]))],
               TExpList(0, [i \in 1..2 |-> RefExp(kinds[i], i)])),
         TSeq(TUnit(3, TRUE)) >> :
      kinds \in [1..2 -> RefKinds] }

\* let (y1, y2): (T1, T2) = h(); where h returns the tuple of the actual
\* types
RefTupleCallBodies ==
    { << TBind(0, [i \in 1..2 |-> TVarL(i, VarY(i), RefExpected(kinds[i]))],
               TCall(4, "h", NTuple([i \in 1..2 |-> RefExp(kinds[i], i).nty]),
                     <<>>, <<>>)),
         TSeq(TUnit(3, TRUE)) >> :
      kinds \in [1..2 -> RefKinds] }

FreezePrograms ==
    { [modules |-> <<TModule("M", TRUE, <<>>, <<>>,
                             <<TFunction("f", <<ParamX, ParamR, ParamS>>, NBool, seq)>>)>>] :
      seq \in RefCallBodies }
    \cup
    { [modules |-> <<TModule("M", TRUE, <<>>, <<>>,
                             <<TFunction("f", <<ParamX, ParamR, ParamS>>, NUnit, seq)>>)>>] :
      seq \in RefTupleBodies \cup RefTupleCallBodies }
    \cup
    \* fun f(...): &u64 { r } and { return r }
    { [modules |-> <<TModule("M", TRUE, <<>>, <<>>,
                             <<TFunction("f", <<ParamX, ParamR, ParamS>>,
                                         NRef(FALSE, NU64), <<TSeq(e)>>)>>)>>] :
      e \in {RefExp("MutToImm", 1), TReturn(1, RefExp("MutToImm", 1))} }

ModName(m) == "M" \o Digit(m)

VarT == NVar(<<"t">>, 0, 0)

TBorrow(loc, mut, base, field, fty) ==
    [k |-> "Borrow", loc |-> loc, nty |-> NRef(mut, fty), sub |-> <<base>>,
     mut |-> mut, name |-> field]

TUnpackL(loc, mident, ufields) ==
    [k |-> "Unpack", loc |-> loc, nty |-> NStructS(mident), mod |-> mident,
     name |-> "S", targs |-> <<>>, mut |-> FALSE, ufields |-> ufields]

\* what the function of a module does with the fields of the struct S of
\* its module: nothing, S { a: true, b: false }, &t.a, let S { a: _, b: _ } = t
FieldUses == {"None", "Pack", "Borrow", "Unpack"}

FieldUseBody(use, mident) ==
    CASE use = "None" -> <<TSeq(TUnit(1, TRUE))>>
      [] use = "Pack" ->
            << TSeq(TPack(1, mident, <<0, 1>>,
                          <<TValue(1, NBool, 1), TValue(2, NBool, 0)>>)),
               TSeq(TUnit(2, TRUE)) >>
      [] use = "Borrow" ->
            << TSeq(TBorrow(1, FALSE,
                            [TBorrowLocal(1, FALSE, VarT, NStructS(mident))
                                EXCEPT !.nty = NRef(FALSE, NStructS(mident))],
                            "a", NBool)),
               TSeq(TUnit(2, TRUE)) >>
      [] OTHER ->
            << TBind(1, <<TUnpackL(1, mident,
                                   [i \in 1..2 |->
                                       [name |-> FieldName(i), nty |-> NBool,
                                        lv |-> [k |-> "Ignore", loc |-> i]]])>>,
                     TMove(1, VarT, NStructS(mident))),
               TSeq(TUnit(2, TRUE)) >>

TConstantDef(name, loc, signature, value_exp) ==
    [name |-> name, warning_filter |-> "constant", loc |-> loc,
     signature |-> signature, value |-> value_exp]

TNative(name) ==
    [name |-> name, warning_filter |-> "function", visibility |-> "Package",
     signature |-> [parameters |-> <<ParamX>>, return_type |-> NBool],
     body |-> [k |-> "Native", loc |-> 0, seq |-> <<>>]]

\* module m: struct S { a, b }, a constant, a native function and f(t: S)
FieldModule(m, is_source_module, use) ==
    TModule(ModName(m), is_source_module, <<StructS(m, 2)>>,
            <<TConstantDef("K", 0, NU64, TValue(0, NU64, 7))>>,
            << TNative("n"),
               TFunction("f", <<[nvar |-> VarT, nty |-> NStructS(ModName(m))]>>, NUnit,
                         FieldUseBody(use, ModName(m))) >>)

FieldPrograms ==
    UNION { { [modules |-> [m \in 1..n |-> FieldModule(m, sources[m], uses[m])]] :
              sources \in [1..n -> BOOLEAN], uses \in [1..n -> FieldUses] } :
            n \in 1..MaxModules }

TWhile(loc, nvar, test, while_body) ==
    [k |-> "While", loc |-> loc, nty |-> NUnit, sub |-> <<test, while_body>>,
     nvar |-> nvar]

\* return 5
TReturn5(loc) == TReturn(loc, TValue(loc, NU64, 5))

\* return
TReturnUnit(loc) == TReturn(loc, TUnit(loc, FALSE))

\* Statements: return; abort 0; a call; an if whose branches both end in a
\* terminal command; an if whose then-branch is such an if; an if with one
\* diverging branch; a loop without break; a while whose body returns; an
\* if whose else-branch is a loop without break
StmtKinds ==
    {"Return", "Abort", "Call", "IfBoth", "IfNested", "IfOne", "Loop", "While", "IfLoop"}

Stmt(kind, i) ==
    CASE kind = "Return" -> TReturnUnit(i)
      [] kind = "Abort" -> TAbort(i)
      [] kind = "Call" -> TCall(i, CallName(i), NBool, <<>>, <<>>)
      [] kind = "IfBoth" ->
            TIfElse(i, NAnything, TCopy(i, VarX, NBool),
                    TReturnUnit(10 * i + 1), TAbort(10 * i + 2))
      [] kind = "IfNested" ->
            TIfElse(i, NAnything, TCopy(i, VarX, NBool),
                    TIfElse(10 * i + 1, NAnything, TCopy(10 * i + 1, VarX, NBool),
                            TReturnUnit(10 * i + 3), TAbort(10 * i + 4)),
                    TAbort(10 * i + 2))
      [] kind = "IfOne" ->
            TIfElse(i, NUnit, TCopy(i, VarX, NBool),
                    TReturnUnit(10 * i + 1), TUnit(10 * i + 2, FALSE))
      [] kind = "Loop" ->
            TLoop(i, NAnything, Label(i), FALSE,
                  TCall(10 * i + 1, CallName(i), NBool, <<>>, <<>>))
      [] kind = "While" ->
            TWhile(i, Label(i), TCopy(i, VarX, NBool), TReturnUnit(10 * i + 1))
      [] OTHER ->
            TIfElse(i, NAnything, TCopy(i, VarX, NBool),
                    TReturnUnit(10 * i + 1),
                    TLoop(10 * i + 2, NAnything, Label(i), FALSE,
                          TCall(10 * i + 3, CallName(i), NBool, <<>>, <<>>)))

\* where the sequence { stmt; } stands: it is the function body, a block in
\* statement position, or the initializer of `let () = { stmt; };`
SeqPositions == {"Tail", "Stmt", "Value"}

\* { stmt; }: the statement at location 1, the trailing unit of its `;` at 2
TrailSeq(kind) == <<TSeq(Stmt(kind, 1)), TSeq(TUnit(2, TRUE))>>

TrailBody(pos, kind) ==
    CASE pos = "Tail" -> TrailSeq(kind)
      [] pos = "Stmt" ->
            <<TSeq(TBlock(3, NUnit, TrailSeq(kind))), TSeq(TUnit(4, FALSE))>>
      [] OTHER ->
            <<TBind(3, <<>>, TBlock(3, NUnit, TrailSeq(kind))), TSeq(TUnit(4, FALSE))>>

\* fun f(x: bool) { ... { stmt; } ... }
TrailProgram(pos, kind) ==
    [modules |-> <<TModule("M", TRUE, <<>>, <<>>,
                           <<TFunction("f", <<ParamX>>, NUnit, TrailBody(pos, kind))>>)>>]

\* fun f(x: bool): u64 { return 5; }
ReturnValueProgram ==
    [modules |-> <<TModule("M", TRUE, <<>>, <<>>,
                           <<TFunction("f", <<ParamX>>, NU64,
                                       <<TSeq(TReturn5(1)), TSeq(TUnit(2, TRUE))>>)>>)>>]

\* fun f(x: bool) { stmt }: the statement is the tail expression
TailProgram(kind) ==
    [modules |-> <<TModule("M", TRUE, <<>>, <<>>,
                           <<TFunction("f", <<ParamX>>, NUnit, <<TSeq(Stmt(kind, 1))>>)>>)>>]

\* assert(cond, code), is_macro for the assert! form
TAssert(loc, is_macro, cond, code) ==
    [k |-> "Builtin", loc |-> loc, nty |-> NUnit, bt |-> "Assert",
     is_macro |-> is_macro, sub |-> <<TExpList(loc, <<cond, code>>)>>]

\* Abort codes: a constant, a block that assigns x from a call and yields a
\* constant (it hoists a statement), and an abort (it diverges)
CodeKinds == {"Value", "Hoist", "Abort"}

AssertCode(kind, i) ==
    CASE kind = "Value" -> TValue(i, NU64, 42)
      [] kind = "Hoist" ->
            TBlock(i, NU64,
                   << TSeq(TAssign(i, <<TVarL(i, VarX, NBool)>>,
                                   TCall(i, CallName(i), NBool, <<>>, <<>>))),
                      TSeq(TValue(i, NU64, 42)) >>)
      [] OTHER -> TAbort(i)

\* fun f(x: bool) { assert(cond, code) }: the condition at location 1, the
\* code at 2, the assert at 3
AssertProgram(is_macro, cond_kind, code_kind) ==
    [modules |-> <<TModule("M", TRUE, <<>>, <<>>,
                           <<TFunction("f", <<ParamX>>, NUnit,
                                       <<TSeq(TAssert(3, is_macro, Operand(cond_kind, 1),
                                                      AssertCode(code_kind, 2)))>>)>>)>>]

TContinue(loc, nvar) ==
    [k |-> "Continue", loc |-> loc, nty |-> NAnything, sub |-> <<>>, nvar |-> nvar]

\* Initializers of `let y: bool = e;`: the statements that yield no value,
\* a call, and a break and a continue of the loop around the let
ValueKinds ==
    {"Return", "Abort", "Call", "IfBoth", "IfNested", "Loop", "IfLoop", "Give", "Continue"}

\* let y: bool = e; with e at location 1
LetY(e) ==
    <<TBind(3, <<TVarL(3, VarY(3), NBool)>>, e), TSeq(TUnit(4, TRUE))>>

ValueBody(kind) ==
    CASE kind = "Give" ->
            <<TSeq(TLoop(5, NUnit, Label(5), TRUE,
                         TBlock(5, NUnit, LetY(TGive(1, Label(5), TUnit(1, FALSE)))))),
              TSeq(TUnit(6, TRUE))>>
      [] kind = "Continue" ->
            <<TSeq(TLoop(5, NAnything, Label(5), FALSE,
                         TBlock(5, NUnit, LetY(TContinue(1, Label(5)))))),
              TSeq(TUnit(6, TRUE))>>
      [] OTHER -> LetY(Stmt(kind, 1))

\* fun f(x: bool) { let y: bool = e; }
ValueProgram(kind) ==
    [modules |-> <<TModule("M", TRUE, <<>>, <<>>,
                           <<TFunction("f", <<ParamX>>, NUnit, ValueBody(kind))>>)>>]

\* Variables: a name, the id given by naming, the color given by macro
\* expansion; ids and colors of one and of two digits
VarNames == {<<"x">>, <<"x", "1">>}

VarIds == {0, 1, 12}

VarColors == {0, 3, 23}

Vars == {NVar(name, id, color) : name \in VarNames, id \in VarIds, color \in VarColors}

\* fun f(v: bool, w: bool): bool { c1(v, { w = c2(); w }) }: the second
\* argument hoists a statement, so the first is bound to a temporary
VarProgram(v, w) ==
    [modules |-> <<TModule("M", TRUE, <<>>, <<>>,
        <<TFunction("f", <<[nvar |-> v, nty |-> NBool], [nvar |-> w, nty |-> NBool]>>,
                    NBool,
                    <<TSeq(TCall(1, CallName(1), NBool, <<NBool, NBool>>,
                                 << TCopy(1, v, NBool),
                                    TBlock(2, NBool,
                                           << TSeq(TAssign(2, <<TVarL(2, w, NBool)>>,
                                                           TCall(2, CallName(2), NBool,
                                                                 <<>>, <<>>))),
                                              TSeq(TCopy(2, w, NBool)) >>) >>))>>)>>)>>]

\* Functions of a module: a native function, a function whose body is a
\* loop with a break value (it registers the binders of the loop label l),
\* and a function whose call binds an argument to a temporary
FunKinds == {"Native", "Loop", "Temps"}

FunOfKind(kind, name) ==
    CASE kind = "Native" -> TNative(name)
      [] kind = "Loop" ->
            TFunction(name, <<ParamX>>, NBool,
                      <<TSeq(TLoop(1, NBool, Label(1), TRUE,
                                   TBlock(1, NAnything,
                                          <<TSeq(TGive(1, Label(1),
                                                       TValue(1, NBool, 1)))>>)))>>)
      [] OTHER ->
            TFunction(name, <<ParamX>>, NBool,
                      <<TSeq(TCall(1, CallName(1), NBool, <<NBool, NBool>>,
                                   <<Operand("Pure", 1), Operand("Hoist", 2)>>))>>)

\* module M { const K: u64 = 7; fun f1 ...; ...; fun fn ... }
FunctionsProgram(kinds) ==
    [modules |-> <<TModule("M", TRUE, <<>>,
                           <<TConstantDef("K", 0, NU64, TValue(0, NU64, 7))>>,
                           [i \in 1..Len(kinds) |->
                               FunOfKind(kinds[i], "f" \o Digit(i))])>>]

\* module M { struct S { a, b } ... } and a script with a constant and a
\* function `main` whose let initializer is dead code or whose body is a
\* call
ScriptProgram(use, kind) ==
    [modules |-> << FieldModule(1, TRUE, use),
                    TScript(<<TConstantDef("K", 0, NU64, TValue(0, NU64, 7))>>, "main",
                            TFunction("main", <<ParamX>>, NUnit, ValueBody(kind))) >>]

\* g(e) where typing has reported an error for the argument: a mutable
\* reference to u64 where a reference to bool is expected, an immutable
\* reference where a mutable one is expected
MismatchKinds == {"MutToOther", "ImmToMut"}

MismatchExp(kind) ==
    IF kind = "MutToOther" THEN TCopy(1, VarR, NRef(TRUE, NU64))
    ELSE TCopy(1, VarS, NRef(FALSE, NU64))

MismatchExpected(kind) ==
    IF kind = "MutToOther" THEN NRef(FALSE, NBool) ELSE NRef(TRUE, NU64)

\* fun f(x: bool, r: &mut u64, s: &u64): bool { g(e) }
MismatchProgram(kind) ==
    [modules |-> <<TModule("M", TRUE, <<>>, <<>>,
                           <<TFunction("f", <<ParamX, ParamR, ParamS>>, NBool,
                                       <<TSeq(TCall(0, "g", NBool, <<MismatchExpected(kind)>>,
                                                    <<MismatchExp(kind)>>))>>)>>)>>]

\* the programs for which typing has reported errors
HasErrors(p) == \E kind \in MismatchKinds : p = MismatchProgram(kind)

\* *lhs = rhs
TMutate(loc, lhs, rhs) ==
    [k |-> "Mutate", loc |-> loc, nty |-> NUnit, sub |-> <<lhs, rhs>>]

\* Conditions of a while: the parameter x, the literal true, a block that
\* hoists a statement, an abort
WhileConds == {"Pure", "True", "Hoist", "Abort"}

WhileCond(kind) ==
    IF kind = "True" THEN TValue(5, NBool, 1) ELSE Operand(kind, 5)

\* Bodies of a while: return, abort 0, break, continue, a call, an
\* assignment, a mutation through r
WhileBodies == {"Return", "Abort", "Break", "Continue", "Call", "Assign", "Mutate"}

WhileBody(kind) ==
    CASE kind = "Return" -> TReturnUnit(11)
      [] kind = "Abort" -> TAbort(11)
      [] kind = "Break" -> TGive(11, Label(1), TUnit(11, FALSE))
      [] kind = "Continue" -> TContinue(11, Label(1))
      [] kind = "Call" -> TCall(11, CallName(1), NBool, <<>>, <<>>)
      [] kind = "Assign" ->
            TAssign(11, <<TVarL(11, VarX, NBool)>>, TValue(11, NBool, 0))
      [] OTHER -> TMutate(11, TCopy(11, VarR, NRef(TRUE, NU64)), TValue(11, NU64, 5))

\* while (cond) body, at location 1
WhileExp(cond_kind, body_kind) ==
    TWhile(1, Label(1), WhileCond(cond_kind), WhileBody(body_kind))

\* fun f(x: bool, r: &mut u64) { ... } with the while as a statement
\* followed by `;`, as the tail expression, or as the initializer of
\* `let () = while ...;`
WhileProgram(pos, cond_kind, body_kind) ==
    [modules |-> <<TModule("M", TRUE, <<>>, <<>>,
        <<TFunction("f", <<ParamX, ParamR>>, NUnit,
                    CASE pos = "Tail" -> <<TSeq(WhileExp(cond_kind, body_kind))>>
                      [] pos = "Stmt" ->
                            <<TSeq(WhileExp(cond_kind, body_kind)), TSeq(TUnit(2, TRUE))>>
                      [] OTHER ->
                            <<TBind(3, <<>>, WhileExp(cond_kind, body_kind)),
                              TSeq(TUnit(4, TRUE))>>)>>)>>]

\* Breaks of a loop: `break`, `break true`, a break whose value hoists a
\* statement, an if/else with a break of a value in each branch, `break u()`
\* for a call of type unit, `break (abort 0)`, and `break r` of the
\* parameter r: &mut u64 in a loop of type &u64
GiveKinds == {"Unit", "Value", "Hoist", "Two", "UnitCall", "Abort", "Freeze"}

\* the type of a loop with such a break
LoopType(give_kind) ==
    CASE give_kind \in {"Unit", "UnitCall"} -> NUnit
      [] give_kind = "Freeze" -> NRef(FALSE, NU64)
      [] OTHER -> NBool

\* loop 'l_i { give }: the loop at location i, its gives at 10i+1 .. 10i+3
LoopExp(give_kind, i) ==
    TLoop(i, LoopType(give_kind), Label(i), TRUE,
          CASE give_kind = "Unit" -> TGive(10 * i + 1, Label(i), TUnit(10 * i + 1, FALSE))
            [] give_kind = "Value" ->
                  TGive(10 * i + 1, Label(i), TValue(10 * i + 1, NBool, 1))
            [] give_kind = "Hoist" -> TGive(10 * i + 1, Label(i), Operand("Hoist", 5 + i))
            [] give_kind = "UnitCall" ->
                  TGive(10 * i + 1, Label(i), TCall(10 * i + 1, "u", NUnit, <<>>, <<>>))
            [] give_kind = "Abort" -> TGive(10 * i + 1, Label(i), TAbort(10 * i + 1))
            [] give_kind = "Freeze" ->
                  TGive(10 * i + 1, Label(i), TCopy(10 * i + 1, VarR, NRef(TRUE, NU64)))
            [] OTHER ->
                  TIfElse(10 * i + 1, NAnything, TCopy(10 * i + 1, VarX, NBool),
                          TGive(10 * i + 2, Label(i), TValue(10 * i + 2, NBool, 1)),
                          TGive(10 * i + 3, Label(i), TValue(10 * i + 3, NBool, 0))))

\* let y = e; or let () = e; for e of type unit
LetOf(e, nty) ==
    TBind(3, IF nty = NUnit THEN <<>> ELSE <<TVarL(3, VarY(3), nty)>>, e)

\* fun f(x: bool, r: &mut u64): T { ... } with the loop as the tail expression, as a
\* statement followed by `;`, or as the initializer of a let
LoopProgram(pos, give_kind) ==
    [modules |-> <<TModule("M", TRUE, <<>>, <<>>,
        <<TFunction("f", <<ParamX, ParamR>>,
                    IF pos = "Tail" THEN LoopType(give_kind) ELSE NUnit,
                    CASE pos = "Tail" -> <<TSeq(LoopExp(give_kind, 1))>>
                      [] pos = "Stmt" ->
                            <<TSeq(LoopExp(give_kind, 1)), TSeq(TUnit(2, TRUE))>>
                      [] OTHER ->
                            <<LetOf(LoopExp(give_kind, 1), LoopType(give_kind)),
                              TSeq(TUnit(4, TRUE))>>)>>)>>]

\* fun f(x: bool, r: &mut u64): T { let y = loop 'l1 { .. }; loop 'l2 { .. } }
TwoLoopsProgram(first_kind, second_kind) ==
    [modules |-> <<TModule("M", TRUE, <<>>, <<>>,
        <<TFunction("f", <<ParamX, ParamR>>, LoopType(second_kind),
                    <<LetOf(LoopExp(first_kind, 1), LoopType(first_kind)),
                      TSeq(LoopExp(second_kind, 2))>>)>>)>>]

\* Branches of an if/else: a literal, a block that hoists a statement, an
\* abort, and a nested if/else with one diverging branch
BranchKinds == {"Value", "Hoist", "Abort", "Nested"}

Branch(kind, i) ==
    CASE kind = "Value" -> TValue(i, NBool, 1)
      [] kind = "Nested" ->
            TIfElse(i, NBool, TCopy(i, VarX, NBool), TValue(i + 2, NBool, 0), TAbort(i + 2))
      [] OTHER -> Operand(kind, i)

\* Conditions of the if/else: the parameter x, a block that hoists a
\* statement, an abort
IfConds == {"Pure", "Hoist", "Abort"}

\* the type of the if/else: bool, unless both branches abort
IfType(then_kind, else_kind) ==
    IF {then_kind, else_kind} = {"Abort"} THEN NAnything ELSE NBool

\* if (cond) b1 else b2, at location 1; the condition at 5, the branches at
\* 6 and 7
IfExp(cond_kind, then_kind, else_kind) ==
    TIfElse(1, IfType(then_kind, else_kind), Operand(cond_kind, 5),
            Branch(then_kind, 6), Branch(else_kind, 7))

\* fun f(x: bool): bool { if .. } and fun f(x: bool) { let y: bool = if ..; }
IfProgram(pos, cond_kind, then_kind, else_kind) ==
    [modules |-> <<TModule("M", TRUE, <<>>, <<>>,
        <<TFunction("f", <<ParamX>>, IF pos = "Tail" THEN NBool ELSE NUnit,
                    IF pos = "Tail" THEN <<TSeq(IfExp(cond_kind, then_kind, else_kind))>>
                    ELSE <<LetOf(IfExp(cond_kind, then_kind, else_kind), NBool),
                           TSeq(TUnit(4, TRUE))>>)>>)>>]

\* (e: T)
TAnnotate(loc, e, nty) ==
    [k |-> "Annotate", loc |-> loc, nty |-> nty, sub |-> <<e>>, nty2 |-> nty]

\* Expressions with a value, as statements: calls of type bool, unit and
\* (bool, bool), tuples of two and three components, a copy, a local
\* borrow, an equality, an annotated literal, an assert, a call whose
\* argument aborts, a literal, a unit
ExpKinds ==
    {"Call", "UnitCall", "TupleCall", "Pair", "Triple", "Copy", "BorrowLocal", "Eq",
     "Annotated", "Assert", "CallAbort", "Literal", "Unit"}

ValuedExp(kind, i) ==
    CASE kind = "Call" -> TCall(i, CallName(i), NBool, <<>>, <<>>)
      [] kind = "UnitCall" -> TCall(i, "u", NUnit, <<>>, <<>>)
      [] kind = "TupleCall" -> TCall(i, "p", NTuple(<<NBool, NBool>>), <<>>, <<>>)
      [] kind = "Pair" ->
            TExpList(i, <<TCopy(i, VarX, NBool), TCall(i, CallName(i), NBool, <<>>, <<>>)>>)
      [] kind = "Triple" ->
            TExpList(i, <<TCopy(i, VarX, NBool), TValue(i, NBool, 1), TCopy(i, VarX, NBool)>>)
      [] kind = "Copy" -> TCopy(i, VarX, NBool)
      [] kind = "BorrowLocal" -> TBorrowLocal(i, FALSE, VarX, NBool)
      [] kind = "Eq" ->
            TBinop(i, "Eq", NBool, NBool, TCopy(i, VarX, NBool), TValue(i, NBool, 1))
      [] kind = "Annotated" -> TAnnotate(i, TValue(i, NU64, 5), NU64)
      [] kind = "Assert" ->
            TAssert(i, FALSE, TCopy(i, VarX, NBool), TValue(i, NU64, 42))
      [] kind = "CallAbort" -> TCall(i, CallName(i), NBool, <<NU64>>, <<TAbort(i)>>)
      [] kind = "Literal" -> TValue(i, NU64, 5)
      [] OTHER -> TUnit(i, FALSE)

\* fun f(x: bool) { e; } and fun f(x: bool) { if (x) e else (); }
ExpStatementProgram(kind, nested) ==
    [modules |-> <<TModule("M", TRUE, <<>>, <<>>,
        <<TFunction("f", <<ParamX>>, NUnit,
                    <<TSeq(IF nested
                           THEN TIfElse(3, NUnit, TCopy(3, VarX, NBool),
                                        ValuedExp(kind, 1), TUnit(4, FALSE))
                           ELSE ValuedExp(kind, 1)),
                      TSeq(TUnit(2, TRUE))>>)>>)>>]

\* Expressions of type &mut u64 (or (&mut u64, bool)) used where &u64 (or
\* (&u64, bool)) is expected: the parameter r, a call, an if/else with r in
\* each branch, a loop with `break r`, a block { r }, the tuple (r, x)
RefShapes == {"Plain", "Call", "IfElse", "Loop", "Block", "Tuple"}

CopyR(i) == TCopy(i, VarR, NRef(TRUE, NU64))

CoercedExp(shape) ==
    CASE shape = "Plain" -> CopyR(1)
      [] shape = "Call" -> TCall(1, "g", NRef(TRUE, NU64), <<NRef(TRUE, NU64)>>, <<CopyR(1)>>)
      [] shape = "IfElse" ->
            TIfElse(1, NRef(TRUE, NU64), TCopy(5, VarX, NBool), CopyR(6), CopyR(7))
      [] shape = "Loop" ->
            TLoop(1, NRef(TRUE, NU64), Label(1), TRUE, TGive(11, Label(1), CopyR(11)))
      [] shape = "Block" -> TBlock(1, NRef(TRUE, NU64), <<TSeq(CopyR(6))>>)
      [] OTHER -> TExpList(1, <<CopyR(1), TCopy(1, VarX, NBool)>>)

\* the type expected of the expression
CoercedType(shape) ==
    IF shape = "Tuple" THEN NTuple(<<NRef(FALSE, NU64), NBool>>) ELSE NRef(FALSE, NU64)

\* fun f(x: bool, r: &mut u64): &u64 { e }   and
\* fun f(x: bool, r: &mut u64) { let y: &u64 = e; }
CoercedProgram(pos, shape) ==
    [modules |-> <<TModule("M", TRUE, <<>>, <<>>,
        <<TFunction("f", <<ParamX, ParamR>>,
                    IF pos = "Tail" THEN CoercedType(shape) ELSE NUnit,
                    IF pos = "Tail" THEN <<TSeq(CoercedExp(shape))>>
                    ELSE <<TBind(3, IF shape = "Tuple"
                                    THEN <<TVarL(3, VarY(3), NRef(FALSE, NU64)),
                                           TVarL(3, VarZ(3), NBool)>>
                                    ELSE <<TVarL(3, VarY(3), NRef(FALSE, NU64))>>,
                                 CoercedExp(shape)),
                           TSeq(TUnit(4, TRUE))>>)>>)>>]

\* fun f(x: bool): (bool, .., bool) { (a1, ..., an) }
TupleProgram(kinds) ==
    [modules |-> <<TModule("M", TRUE, <<>>, <<>>,
        <<TFunction("f", <<ParamX>>, NTuple([i \in 1..Len(kinds) |-> NBool]),
                    <<TSeq(TExpList(0, [i \in 1..Len(kinds) |-> Operand(kinds[i], i)]))>>)>>)>>]

\* Expressions that diverge: abort 0, return, a loop without break
DivergentKinds == {"Abort", "Return", "Loop"}

Divergent(kind, i) ==
    CASE kind = "Abort" -> TAbort(i)
      [] kind = "Return" -> TReturnUnit(i)
      [] OTHER -> TLoop(i, NAnything, Label(i), FALSE, TCall(i, CallName(i), NBool, <<>>, <<>>))

\* A diverging expression d as a part of a value: S { a: d, b: x } written
\* in declared order, S { b: x, a: d } written out of declared order, and
\* the tuple (d, x)
PartShapes == {"PackDeclared", "PackReordered", "Tuple"}

WithDivergentPart(shape, kind) ==
    CASE shape = "PackDeclared" ->
            TPack(3, "M", <<0, 1>>, <<Divergent(kind, 1), TCopy(3, VarX, NBool)>>)
      [] shape = "PackReordered" ->
            TPack(3, "M", <<1, 0>>, <<Divergent(kind, 1), TCopy(3, VarX, NBool)>>)
      [] OTHER -> TExpList(3, <<Divergent(kind, 1), TCopy(3, VarX, NBool)>>)

\* struct S { a: bool, b: bool }  fun f(x: bool) { e; }
DivergentPartProgram(shape, kind) ==
    [modules |-> <<TModule("M", TRUE, <<StructS(1, 2)>>, <<>>,
        <<TFunction("f", <<ParamX>>, NUnit,
                    <<TSeq(WithDivergentPart(shape, kind)), TSeq(TUnit(2, TRUE))>>)>>)>>]

\* fun f(x: bool) { }
EmptyBodyProgram ==
    [modules |-> <<TModule("M", TRUE, <<>>, <<>>,
                           <<TFunction("f", <<ParamX>>, NUnit, <<>>)>>)>>]

\* the state after Context::new: the program is one of the bounded families
\* (a binary-operator tree, a call, a sequence, a pack, reference
\* arguments, modules with struct fields, a sequence with a trailing `;` in
\* tail, statement or value position, a statement as the tail expression,
\* an empty body, an assert, a let whose initializer yields no value, two
\* parameters of any names, ids and colors, a module of several functions,
\* a module and a script, a call whose argument has a type error, a while,
\* loops with breaks, an if/else as a value, an expression as a statement,
\* a mutable reference where an immutable one is expected, a tuple,
\* a diverging expression as a field or a component),
\* nothing is lowered yet
Init ==
    /\ \/ \E n \in 2..MaxOperands : \E kinds \in [1..n -> OperandKinds] :
              \E t \in BinopTrees(kinds, 1, n) : prog = BinopProgram(t)
       \/ prog \in CallPrograms
       \/ \E n \in 1..MaxSeqItems : \E kinds \in [1..n -> ItemKinds] :
              WellScoped(kinds) /\ prog = SequenceProgram(kinds)
       \/ prog \in PackPrograms
       \/ prog \in FreezePrograms
       \/ prog \in FieldPrograms
       \/ \E pos \in SeqPositions : \E kind \in StmtKinds : prog = TrailProgram(pos, kind)
       \/ \E kind \in StmtKinds \ {"Call"} : prog = TailProgram(kind)
       \/ prog = ReturnValueProgram
       \/ \E shape \in PartShapes : \E kind \in DivergentKinds :
             prog = DivergentPartProgram(shape, kind)
       \/ \E n \in 2..MaxArgs : \E kinds \in [1..n -> ArgKinds] : prog = TupleProgram(kinds)
       \/ \E pos \in {"Tail", "Value"} : \E shape \in RefShapes :
             prog = CoercedProgram(pos, shape)
       \/ \E kind \in ExpKinds : \E nested \in BOOLEAN :
             prog = ExpStatementProgram(kind, nested)
       \/ \E pos \in {"Tail", "Value"} : \E ck \in IfConds :
             \E bk1 \in BranchKinds : \E bk2 \in BranchKinds :
                prog = IfProgram(pos, ck, bk1, bk2)
       \/ \E pos \in SeqPositions : \E gk \in GiveKinds : prog = LoopProgram(pos, gk)
       \/ \E gk1 \in GiveKinds : \E gk2 \in GiveKinds : prog = TwoLoopsProgram(gk1, gk2)
       \/ \E pos \in SeqPositions : \E ck \in WhileConds : \E bk \in WhileBodies :
              prog = WhileProgram(pos, ck, bk)
       \/ \E kind \in MismatchKinds : prog = MismatchProgram(kind)
       \/ \E use \in FieldUses : \E kind \in {"Abort", "Call"} : prog = ScriptProgram(use, kind)
       \/ \E kinds \in [1..MaxFunctions -> FunKinds] : prog = FunctionsProgram(kinds)
       \/ \E v \in Vars : \E w \in Vars \ {v} : prog = VarProgram(v, w)
       \/ \E kind \in ValueKinds : prog = ValueProgram(kind)
       \/ \E is_macro \in BOOLEAN : \E ck \in {"Pure", "Hoist", "Abort"} : \E dk \in CodeKinds :
              prog = AssertProgram(is_macro, ck, dk)
       \/ prog = EmptyBodyProgram
    /\ context = Context_new(program_structs(prog), HasErrors(prog))
    /\ pc = [m |-> 1, at |-> "enter", i |-> 0]
    /\ out = <<>>

Next ==
    \/ ModuleEnter
    \/ StructDef
    \/ Constant
    \/ Function
    \/ GenUnusedWarnings
    \/ ModuleExit

Spec == Init /\ [][Next]_vars

(***************************************************************************)
(* Observable behaviour.  An execution is [env, tr, st, v, vs]: the values *)
(* of the locals, the trace of calls made so far (each call with the       *)
(* values of its arguments), the status ("ok", "return", "abort", or       *)
(* "unsupported" for a construct the interpreters do not run), the value   *)
(* of the last expression and, for a tuple, the values of its components.  *)
(* ret gives the value each called function returns.  EvalT runs the       *)
(* T-AST with the source semantics (operands and arguments left to right,  *)
(* && and || short-circuit); ExecH runs an H-AST block statement by        *)
(* statement and evaluates every H expression left to right.               *)
(***************************************************************************)
SetLocal(env, var, v) ==
    [x \in DOMAIN env \cup {var} |-> IF x = var THEN v ELSE env[x]]

Pow2(n) == CASE n = 0 -> 1 [] n = 1 -> 2 [] n = 2 -> 4 [] n = 3 -> 8 [] OTHER -> 16

RECURSIVE PackValue(_, _)
PackValue(vals, idxs) ==
    IF vals = <<>> THEN 0
    ELSE vals[1] * Pow2(idxs[1]) + PackValue(Tail(vals), Tail(idxs))

BinopValue(op, v1, v2) ==
    CASE op = "And" -> IF v1 = 1 /\ v2 = 1 THEN 1 ELSE 0
      [] op = "Or" -> IF v1 = 1 \/ v2 = 1 THEN 1 ELSE 0
      [] OTHER -> IF v1 = v2 THEN 1 ELSE 0

RECURSIVE EvalT(_, _, _)
RECURSIVE EvalTList(_, _, _, _)
RECURSIVE EvalTSeq(_, _, _, _)

\* the expressions es[i..], left to right; vs collects their values
EvalTList(ret, s, es, i) ==
    IF i > Len(es) \/ s.st # "ok" THEN s
    ELSE LET s1 == EvalT(ret, s, es[i])
         IN EvalTList(ret, [s1 EXCEPT !.vs = Append(s.vs, s1.v)], es, i + 1)

AssignT(s, lvs) ==
    IF Len(lvs) = 1 /\ lvs[1].k = "Var"
    THEN [s EXCEPT !.env = SetLocal(s.env, translate_var(lvs[1].nvar), s.v)]
    ELSE IF \A i \in 1..Len(lvs) : lvs[i].k = "Ignore" THEN s
    ELSE [s EXCEPT !.st = "unsupported"]

EvalTSeq(ret, s, seq, i) ==
    IF i > Len(seq) \/ s.st # "ok" THEN s
    ELSE LET item == seq[i]
             s1 == CASE item.k = "Seq" -> EvalT(ret, s, item.sub[1])
                     [] item.k = "Declare" -> s
                     [] OTHER ->
                          LET r == EvalT(ret, s, item.sub[1])
                          IN IF r.st = "ok" THEN AssignT(r, item.lvs) ELSE r
         IN EvalTSeq(ret, s1, seq, i + 1)

TCallArgs(e) ==
    CASE e.sub[1].k = "Unit" -> <<>>
      [] e.sub[1].k = "ExpList" -> e.sub[1].sub
      [] OTHER -> e.sub

EvalT(ret, s, e) ==
    IF s.st # "ok" THEN s
    ELSE CASE e.k = "Value" -> [s EXCEPT !.v = e.val]
           [] e.k = "Unit" -> [s EXCEPT !.v = 0]
           [] e.k \in {"Copy", "Move"} -> [s EXCEPT !.v = s.env[translate_var(e.nvar)]]
           [] e.k = "BorrowLocal" -> [s EXCEPT !.v = 0]
           [] e.k = "ModuleCall" ->
                 LET r == EvalTList(ret, [s EXCEPT !.vs = <<>>], TCallArgs(e), 1)
                 IN IF r.st # "ok" THEN r
                    ELSE [r EXCEPT !.tr = Append(r.tr, <<e.name>> \o r.vs),
                                   !.v = ret[e.name], !.vs = s.vs]
           [] e.k = "BinopExp" ->
                 LET l == EvalT(ret, s, e.sub[1])
                 IN IF l.st # "ok" THEN l
                    ELSE IF e.op = "And" /\ l.v = 0 THEN l
                    ELSE IF e.op = "Or" /\ l.v = 1 THEN l
                    ELSE LET r == EvalT(ret, l, e.sub[2])
                         IN IF r.st # "ok" THEN r
                            ELSE [r EXCEPT !.v = BinopValue(e.op, l.v, r.v)]
           [] e.k = "Block" -> EvalTSeq(ret, s, e.seq, 1)
           [] e.k = "Assign" ->
                 LET r == EvalT(ret, s, e.sub[1])
                 IN IF r.st = "ok" THEN [AssignT(r, e.lvs) EXCEPT !.v = 0] ELSE r
           [] e.k = "Abort" ->
                 LET r == EvalT(ret, s, e.sub[1])
                 IN IF r.st = "ok" THEN [r EXCEPT !.st = "abort"] ELSE r
           [] e.k = "Return" ->
                 LET r == EvalT(ret, s, e.sub[1])
                 IN IF r.st = "ok" THEN [r EXCEPT !.st = "return"] ELSE r
           [] e.k = "IfElse" ->
                 LET t == EvalT(ret, s, e.sub[1])
                 IN IF t.st # "ok" THEN t
                    ELSE IF t.v = 1 THEN EvalT(ret, t, e.sub[2])
                    ELSE EvalT(ret, t, e.sub[3])
           [] e.k = "Pack" ->
                 \* the field expressions in source order; the value is by
                 \* declared field
                 LET order == sort_by_exp_idx([i \in 1..Len(e.pfields) |->
                                  [exp_idx |-> e.pfields[i].exp_idx,
                                   idx |-> fields(context, e.mod, e.name)[e.pfields[i].name],
                                   te |-> e.sub[i]]])
                     r == EvalTList(ret, [s EXCEPT !.vs = <<>>],
                                    [i \in 1..Len(order) |-> order[i].te], 1)
                 IN IF r.st # "ok" THEN r
                    ELSE [r EXCEPT !.v = PackValue(r.vs, [i \in 1..Len(order) |->
                                                             order[i].idx]),
                                   !.vs = s.vs]
           [] e.k = "ExpList" ->
                 EvalTList(ret, [s EXCEPT !.vs = <<>>], e.sub, 1)
           [] OTHER -> [s EXCEPT !.st = "unsupported"]

RECURSIVE EvalH(_, _, _)
RECURSIVE EvalHList(_, _, _, _)
RECURSIVE ExecH(_, _, _, _)

EvalHList(ret, s, es, i) ==
    IF i > Len(es) \/ s.st # "ok" THEN s
    ELSE LET s1 == EvalH(ret, s, es[i])
         IN EvalHList(ret, [s1 EXCEPT !.vs = Append(s.vs, s1.v)], es, i + 1)

EvalH(ret, s, e) ==
    IF s.st # "ok" THEN s
    ELSE CASE e.k = "Value" -> [s EXCEPT !.v = e.val]
           [] e.k \in {"Unit", "BorrowLocal", "Unreachable", "UnresolvedError"} ->
                 [s EXCEPT !.v = 0]
           [] e.k \in {"Copy", "Move"} ->
                 IF e.var \in DOMAIN s.env THEN [s EXCEPT !.v = s.env[e.var]]
                 ELSE [s EXCEPT !.st = "unassigned"]
           [] e.k = "ModuleCall" ->
                 LET r == EvalHList(ret, [s EXCEPT !.vs = <<>>], e.sub, 1)
                 IN IF r.st # "ok" THEN r
                    ELSE [r EXCEPT !.tr = Append(r.tr, <<e.name>> \o r.vs),
                                   !.v = ret[e.name], !.vs = s.vs]
           [] e.k = "BinopExp" ->
                 LET l == EvalH(ret, s, e.sub[1])
                     r == EvalH(ret, l, e.sub[2])
                 IN IF r.st # "ok" THEN r
                    ELSE [r EXCEPT !.v = BinopValue(e.op, l.v, r.v)]
           [] e.k = "Pack" ->
                 LET r == EvalHList(ret, [s EXCEPT !.vs = <<>>], e.sub, 1)
                 IN IF r.st # "ok" THEN r
                    ELSE [r EXCEPT !.v = PackValue(r.vs, [i \in 1..Len(e.sub) |-> i - 1]),
                                   !.vs = s.vs]
           [] e.k = "Multiple" -> EvalHList(ret, [s EXCEPT !.vs = <<>>], e.sub, 1)
           [] e.k = "Freeze" -> EvalH(ret, s, e.sub[1])
           [] OTHER -> [s EXCEPT !.st = "unsupported"]

AssignH(s, lvs) ==
    IF Len(lvs) = 1 /\ lvs[1].k = "Var"
    THEN [s EXCEPT !.env = SetLocal(s.env, lvs[1].var, s.v)]
    ELSE IF \A i \in 1..Len(lvs) : lvs[i].k = "Ignore" THEN s
    ELSE [s EXCEPT !.st = "unsupported"]

ExecH(ret, s, block, i) ==
    IF i > Len(block) \/ s.st # "ok" THEN s
    ELSE LET stmt == block[i]
             s1 == CASE stmt.k = "Assign" ->
                          LET r == EvalH(ret, s, stmt.sub[1])
                          IN IF r.st = "ok" THEN AssignH(r, stmt.lvs) ELSE r
                     [] stmt.k = "IgnoreAndPop" -> EvalH(ret, s, stmt.sub[1])
                     [] stmt.k = "IfElse" ->
                          LET t == EvalH(ret, s, stmt.sub[1])
                          IN IF t.st # "ok" THEN t
                             ELSE IF t.v = 1 THEN ExecH(ret, t, stmt.if_block, 1)
                             ELSE ExecH(ret, t, stmt.else_block, 1)
                     [] stmt.k = "Abort" ->
                          LET r == EvalH(ret, s, stmt.sub[1])
                          IN IF r.st = "ok" THEN [r EXCEPT !.st = "abort"] ELSE r
                     [] stmt.k = "Return" ->
                          LET r == EvalH(ret, s, stmt.sub[1])
                          IN IF r.st = "ok" THEN [r EXCEPT !.st = "return"] ELSE r
                     [] OTHER -> [s EXCEPT !.st = "unsupported"]
         IN ExecH(ret, s1, block, i + 1)

\* what is observed of an execution: the calls, how it ended, and its value
Observed(s) == [tr |-> s.tr, st |-> s.st, v |-> s.v]

StartOf(x0) ==
    [env |-> (translate_var(VarX) :> x0), tr |-> <<>>, st |-> "ok", v |-> 0, vs |-> <<>>]

\* the source function f run to its end: the value of its body is returned
RunT(ret, x0, f) ==
    LET s == EvalTSeq(ret, StartOf(x0), f.body.seq, 1)
    IN Observed(IF s.st = "ok" THEN [s EXCEPT !.st = "return"] ELSE s)

\* the lowered function run to its end
RunH(ret, x0, hf) == Observed(ExecH(ret, StartOf(x0), hf.body, 1))

OraclesFor(n) == [{CallName(i) : i \in 1..n} \cup {"f"} -> {0, 1}]

\* the programs of one module and one function, once that function is lowered
SingleFunction ==
    /\ Len(prog.modules) = 1
    /\ Len(prog.modules[1].functions) = 1
    /\ prog.modules[1].functions[1].body.k = "Defined"

SingleFunctionLowered ==
    /\ SingleFunction
    /\ Len(out) = 1
    /\ Len(out[1].functions) = 1

SourceBody == prog.modules[1].functions[1].body.seq

SourceFunction == prog.modules[1].functions[1]

LoweredFunction == out[1].functions[1]

\* the lowered function behaves as the source function, whatever the called
\* functions return and whatever the parameter x holds
SameBehaviour(n) ==
    \A ret \in OraclesFor(n), x0 \in {0, 1} :
        RunH(ret, x0, LoweredFunction) = RunT(ret, x0, SourceFunction)

(***************************************************************************)
(* Claims                                                                  *)
(***************************************************************************)
IsBinopBody == Len(SourceBody) = 1 /\ SourceBody[1].k = "Seq"
               /\ SourceBody[1].sub[1].k = "BinopExp"

\* C1: for every binary-operator tree lowered by process_binops, running the
\* statements appended to the block and then evaluating the returned
\* expression left to right performs the operands' side effects in source
\* left-to-right order (skipping only what short-circuiting skips): the
\* lowered function makes the same calls in the same order, with the same
\* result, as the source function.
C1_BinopLeftToRight ==
    (SingleFunctionLowered /\ IsBinopBody) => SameBehaviour(MaxOperands)

\* the body is one call f(a1, ..., an) over the parameter x
IsCallBody == Len(SourceBody) = 1 /\ SourceBody[1].k = "Seq"
              /\ SourceBody[1].sub[1].k = "ModuleCall"
              /\ SourceBody[1].sub[1].name = "f"

SourceArgs == TCallArgs(SourceBody[1].sub[1])

LoweredBody == LoweredFunction.body

LoweredLast == LoweredBody[Len(LoweredBody)]

\* the statements of the lowered body before its last one
LoweredPrefix == SubSeq(LoweredBody, 1, Len(LoweredBody) - 1)

LocsAscending(seq) == \A i, j \in 1..Len(seq) : i < j => seq[i].loc <= seq[j].loc

IsTempMove(e) == e.k = "Move" /\ is_temp_name(e.var)

IsTempAssign(stmt) ==
    stmt.k = "Assign" /\ Len(stmt.lvs) = 1 /\ stmt.lvs[1].k = "Var"
    /\ is_temp_name(stmt.lvs[1].var)

\* C2: for every argument list lowered by value_evaluation_order (arguments
\* pure, inline side-effecting or hoisting), running the appended statements
\* and then evaluating the returned expressions in list order observes the
\* arguments' side effects in source order; the returned list has the length
\* and the order of the input list (argument i is at position i), and the
\* statement groups of the arguments are appended in original order.
C2_ArgumentsInSourceOrder ==
    (SingleFunctionLowered /\ IsCallBody) =>
        /\ SameBehaviour(MaxArgs)
        /\ LoweredLast.k = "Return"
        /\ LoweredLast.sub[1].k = "ModuleCall"
        /\ Len(LoweredLast.sub[1].sub) = Len(SourceArgs)
        /\ \A i \in 1..Len(SourceArgs) : LoweredLast.sub[1].sub[i].loc = SourceArgs[i].loc
        /\ LocsAscending(LoweredPrefix)

\* an argument list whose last argument hoists a statement, so that the
\* arguments before it are bound to temporaries
C2_Witness ==
    /\ SingleFunctionLowered /\ IsCallBody
    /\ Len(SourceArgs) >= 2
    /\ SourceArgs[1].k = "ModuleCall"
    /\ SourceArgs[Len(SourceArgs)].k = "Block"
    /\ IsTempMove(LoweredLast.sub[1].sub[1])
    /\ \E i \in 1..Len(LoweredPrefix) : IsTempAssign(LoweredPrefix[i])

IsSimpleArgCall(e) ==
    /\ e.k = "ModuleCall"
    /\ e.sub[1].k \in {"Unit", "BorrowLocal", "Copy", "Move", "Value"}

TwoCallArguments ==
    /\ SingleFunctionLowered /\ IsCallBody
    /\ Len(SourceArgs) = 2
    /\ IsSimpleArgCall(SourceArgs[1]) /\ IsSimpleArgCall(SourceArgs[2])

\* C3 (as the code has it): when f(a1, a2) has two arguments that are both
\* calls with simple arguments, the lowering hoists no statement and makes no
\* temporary: the emitted call's arguments are the two argument calls, left
\* inline in source order.
C3_CallArgumentsStayInline ==
    TwoCallArguments =>
        /\ LoweredPrefix = <<>>
        /\ LoweredLast.k = "Return"
        /\ LoweredLast.sub[1].k = "ModuleCall"
        /\ Len(LoweredLast.sub[1].sub) = 2
        /\ \A i \in 1..2 :
              /\ LoweredLast.sub[1].sub[i].k = "ModuleCall"
              /\ LoweredLast.sub[1].sub[i].name = SourceArgs[i].name
        /\ \A v \in DOMAIN LoweredFunction.locals : ~is_temp_name(v)

\* f(read(&mut x), read(&mut x)) is lowered
C3_Witness ==
    /\ TwoCallArguments
    /\ SourceArgs[1].sub[1].k = "BorrowLocal" /\ SourceArgs[2].sub[1].k = "BorrowLocal"
    /\ LoweredLast.k = "Return"

\* C3 (as the spec has it): each of the two argument calls is assigned to
\* its own fresh temporary in source order before the call, and the emitted
\* call's arguments are those temporaries.
C3_CallArgumentsBoundToTemps ==
    TwoCallArguments =>
        /\ Len(LoweredPrefix) = 2
        /\ \A i \in 1..2 :
              /\ IsTempAssign(LoweredPrefix[i])
              /\ LoweredPrefix[i].sub[1].k = "ModuleCall"
              /\ LoweredPrefix[i].sub[1].name = SourceArgs[i].name
              /\ IsTempMove(LoweredLast.sub[1].sub[i])
              /\ LoweredLast.sub[1].sub[i].var = LoweredPrefix[i].lvs[1].var

\* a && b or a || b, a and b being operands
IsBoolBinopBody ==
    /\ IsBinopBody
    /\ SourceBody[1].sub[1].op \in {"And", "Or"}
    /\ SourceBody[1].sub[1].sub[1].k # "BinopExp"
    /\ SourceBody[1].sub[1].sub[2].k # "BinopExp"

BoolBinop == SourceBody[1].sub[1]

\* the statements and the expression of each operand lowered on its own
LoweredA == value(Context_new(<<>>, FALSE), <<>>, tbool, BoolBinop.sub[1])

LoweredB == value(Context_new(<<>>, FALSE), <<>>, tbool, BoolBinop.sub[2])

NonSimpleRight ==
    \/ LoweredB.b # <<>>
    \/ ~IsSome(LoweredB.e)
    \/ LoweredB.e.k \notin {"Value", "Constant", "Move", "Copy", "UnresolvedError"}

AssignsTo(stmt, t, e) ==
    /\ stmt.k = "Assign"
    /\ Len(stmt.lvs) = 1 /\ stmt.lvs[1].k = "Var" /\ stmt.lvs[1].var = t
    /\ stmt.sub[1] = e

\* block is b's statements, followed by t := b
HoldsBThenAssign(block, t) ==
    /\ IsSome(LoweredB.e)
    /\ Len(block) = Len(LoweredB.b) + 1
    /\ SubSeq(block, 1, Len(LoweredB.b)) = LoweredB.b
    /\ AssignsTo(block[Len(block)], t, LoweredB.e)

\* block is t := the constant
HoldsConstAssign(block, t, const) ==
    Len(block) = 1 /\ AssignsTo(block[1], t, bool_exp(BoolBinop.op_loc, const))

\* the body is a's statements, an IfElse on a, and the return of a move of
\* the one fresh bool temporary t
ExpandsToIfElse ==
    /\ Len(LoweredBody) = Len(LoweredA.b) + 2
    /\ SubSeq(LoweredBody, 1, Len(LoweredA.b)) = LoweredA.b
    /\ LoweredBody[Len(LoweredA.b) + 1].k = "IfElse"
    /\ LoweredBody[Len(LoweredA.b) + 1].sub[1] = LoweredA.e
    /\ LoweredLast.k = "Return"
    /\ IsTempMove(LoweredLast.sub[1])
    /\ LoweredLast.sub[1].ty = tbool
    /\ {v \in DOMAIN LoweredFunction.locals : is_temp_name(v)} = {LoweredLast.sub[1].var}
    /\ LoweredFunction.locals[LoweredLast.sub[1].var] = SBase(BuiltinB("bool"))

BoolTemp == LoweredLast.sub[1].var

BoolIfElse == LoweredBody[Len(LoweredA.b) + 1]

\* C4 (as the code has it): for a && b (a || b) whose right operand is not
\* simple, no assertion fails, and
\*  - when a and b both yield a value, the lowering emits an IfElse on a with
\*    one fresh bool temporary t; for && the then-block holds b's statements
\*    followed by t := b and the else-block holds t := false; for || the
\*    then-block holds t := true and the else-block holds b's statements
\*    followed by t := b; the result is a move of t;
\*  - when a yields a value and b diverges, the branch of b holds b's
\*    statements only, with no assignment of t;
\*  - when a diverges, no IfElse is emitted: the block holds a's statements
\*    only and there is no result.
C4_BooleanBinopExpansion ==
    (SingleFunctionLowered /\ IsBoolBinopBody /\ NonSimpleRight) =>
        /\ context.ice = <<>>
        /\ IsSome(LoweredA.e) =>
              /\ ExpandsToIfElse
              /\ LET bBlock == IF BoolBinop.op = "And" THEN BoolIfElse.if_block
                               ELSE BoolIfElse.else_block
                     constBlock == IF BoolBinop.op = "And" THEN BoolIfElse.else_block
                                   ELSE BoolIfElse.if_block
                 IN /\ HoldsConstAssign(constBlock, BoolTemp, BoolBinop.op = "Or")
                    /\ IF IsSome(LoweredB.e) THEN HoldsBThenAssign(bBlock, BoolTemp)
                       ELSE bBlock = LoweredB.b
        /\ ~IsSome(LoweredA.e) => LoweredBody = LoweredA.b

\* c1() && { x = c2(); x } is lowered: both operands yield a value and the
\* right one hoists a statement
C4_Witness ==
    /\ SingleFunctionLowered /\ IsBoolBinopBody /\ NonSimpleRight
    /\ BoolBinop.op = "And"
    /\ BoolBinop.sub[1].k = "ModuleCall"
    /\ BoolBinop.sub[2].k = "Block"
    /\ ExpandsToIfElse
    /\ Len(BoolIfElse.if_block) = 2

\* C4 (as the spec has it): whenever the right operand is not simple, an
\* IfElse on a is emitted whose branch for b holds b's statements followed
\* by t := b, the other branch holding the assignment of the constant.
C4_BooleanBinopAlwaysAssigns ==
    (SingleFunctionLowered /\ IsBoolBinopBody /\ NonSimpleRight) =>
        /\ context.ice = <<>>
        /\ ExpandsToIfElse
        /\ IF BoolBinop.op = "And"
           THEN /\ HoldsBThenAssign(BoolIfElse.if_block, BoolTemp)
                /\ HoldsConstAssign(BoolIfElse.else_block, BoolTemp, FALSE)
           ELSE /\ HoldsConstAssign(BoolIfElse.if_block, BoolTemp, TRUE)
                /\ HoldsBThenAssign(BoolIfElse.else_block, BoolTemp)

(***************************************************************************)
(* The blocks and the variables of a lowered function                      *)
(***************************************************************************)
RECURSIVE BlocksOf(_)
\* block and every block nested in its statements
BlocksOf(block) ==
    {block} \cup
    UNION { CASE block[i].k = "IfElse" ->
                   BlocksOf(block[i].if_block) \cup BlocksOf(block[i].else_block)
              [] block[i].k = "While" ->
                   BlocksOf(block[i].cond_block) \cup BlocksOf(block[i].block)
              [] block[i].k = "Loop" -> BlocksOf(block[i].block)
              [] OTHER -> {} :
            i \in 1..Len(block) }

RECURSIVE ExpsOf(_)
\* e and every expression nested in it
ExpsOf(e) == {e} \cup UNION { ExpsOf(e.sub[i]) : i \in 1..Len(e.sub) }

RECURSIVE LValueVars(_)
\* the (variable, type) of every Var lvalue in lv
LValueVars(lv) ==
    CASE lv.k = "Var" -> {<<lv.var, lv.sty>>}
      [] lv.k = "Unpack" -> UNION { LValueVars(lv.ufields[i].lv) : i \in 1..Len(lv.ufields) }
      [] OTHER -> {}

\* the expressions of the statements of a block (not of its nested blocks)
BlockExps(block) ==
    UNION { UNION { ExpsOf(block[i].sub[j]) : j \in 1..Len(block[i].sub) } :
            i \in 1..Len(block) }

\* the (variable, type) of every Move, Copy and BorrowLocal of e
ExpVar(e) ==
    CASE e.k \in {"Move", "Copy"} -> {<<e.var, e.ty.ss[1]>>}
      [] e.k = "BorrowLocal" -> {<<e.var, SBase(e.ty.ss[1].b)>>}
      [] OTHER -> {}

\* every (variable, type) that occurs in the body
VarsOfBody(hbody) ==
    UNION { UNION { ExpVar(e) : e \in BlockExps(b) } \cup
            UNION { IF b[i].k = "Assign"
                    THEN UNION { LValueVars(b[i].lvs[j]) : j \in 1..Len(b[i].lvs) }
                    ELSE {} : i \in 1..Len(b) } :
            b \in BlocksOf(hbody) }

\* the lowered functions so far, of every module
LoweredFunctions ==
    UNION { { out[m].functions[i] : i \in 1..Len(out[m].functions) } : m \in 1..Len(out) }

IsSink(stmt) == stmt.k \in {"Return", "Abort", "Break", "Continue"}

\* C5: in every block emitted by the pass no statement follows a divergent
\* statement; a Return, Abort, Break or Continue occurs only as the last
\* statement of its block.
C5_NothingAfterDivergent ==
    \A hf \in LoweredFunctions : \A b \in BlocksOf(hf.body) :
        \A i \in 1..(Len(b) - 1) : ~IsSink(b[i]) /\ ~divergent(b[i])

TempsOf(locals) == {v \in DOMAIN locals : is_temp_name(v)}

\* the variables of the source programs, mangled
SourceVars == {translate_var(VarX)} \cup
              {translate_var(VarY(i)) : i \in 1..(MaxSeqItems + 1)}

\* C6: temp hygiene.  Within one function lowering the temp counter only
\* increases: the temps are %#1, ..., %#n, all distinct from each other and
\* from every mangled variable, and no insertion into function_locals fails
\* on a duplicate; every temp that occurs in the emitted body is in the
\* locals map extracted for the function, with the type it was created at.
C6_TempHygiene ==
    /\ \A i \in 1..Len(context.ice) : context.ice[i] # "function_locals duplicate"
    /\ \A hf \in LoweredFunctions :
          /\ TempsOf(hf.locals) =
                {new_temp_name(k) : k \in 1..Cardinality(TempsOf(hf.locals))}
          /\ TempsOf(hf.locals) \cap SourceVars = {}
          /\ \A vt \in VarsOfBody(hf.body) :
                is_temp_name(vt[1]) =>
                    vt[1] \in DOMAIN hf.locals /\ hf.locals[vt[1]] = vt[2]

\* a function whose lowering made two temporaries, both in its body
C6_Witness ==
    \E hf \in LoweredFunctions :
        /\ Cardinality(TempsOf(hf.locals)) >= 2
        /\ \A t \in TempsOf(hf.locals) : \E vt \in VarsOfBody(hf.body) : vt[1] = t

\* C7: every variable that occurs as a Var lvalue or in a Move, Copy or
\* BorrowLocal of the emitted body is a key of the locals map emitted for
\* the function, with its declared type, also when it is introduced by a
\* let whose initializer diverges and used by later statements.
C7_LocalsCoverVariables ==
    \A hf \in LoweredFunctions : \A vt \in VarsOfBody(hf.body) :
        vt[1] \in DOMAIN hf.locals /\ hf.locals[vt[1]] = vt[2]

RECURSIVE TExpsOf(_)
\* the typed expression e and every typed expression nested in it, the
\* expressions of the items of a block included
TExpsOf(e) ==
    {e} \cup UNION { TExpsOf(e.sub[i]) : i \in 1..Len(e.sub) }
        \cup (IF e.k = "Block"
              THEN UNION { UNION { TExpsOf(e.seq[i].sub[j]) : j \in 1..Len(e.seq[i].sub) } :
                           i \in 1..Len(e.seq) }
              ELSE {})

\* the lvalues bound or assigned in the typed expression e
TLValuesOf(e) ==
    UNION { (IF x.k = "Assign" THEN {x.lvs[i] : i \in 1..Len(x.lvs)} ELSE {})
            \cup (IF x.k = "Block"
                  THEN UNION { IF x.seq[i].k = "Bind"
                               THEN {x.seq[i].lvs[j] : j \in 1..Len(x.seq[i].lvs)}
                               ELSE {} : i \in 1..Len(x.seq) }
                  ELSE {}) :
            x \in TExpsOf(e) }

RECURSIVE TLValueFields(_)
\* the (struct, field) pairs an unpack or borrow-unpack lvalue names
TLValueFields(lv) ==
    IF lv.k \in {"Unpack", "BorrowUnpack"}
    THEN {<<lv.name, lv.ufields[i].name>> : i \in 1..Len(lv.ufields)}
         \cup UNION { TLValueFields(lv.ufields[i].lv) : i \in 1..Len(lv.ufields) }
    ELSE {}

\* the (struct, field) pairs a pack or a field borrow names
TExpFields(e) ==
    CASE e.k = "Pack" -> {<<e.name, e.pfields[i].name>> : i \in 1..Len(e.pfields)}
      [] e.k = "Borrow" ->
            LET base == IF e.sub[1].nty.k = "Ref" THEN e.sub[1].nty.ss[1] ELSE e.sub[1].nty
            IN IF base.k = "Apply" /\ base.b.k = "ModuleType"
               THEN {<<base.b.n, e.name>>} ELSE {}
      [] OTHER -> {}

\* the (struct, field) pairs referenced by the functions and constants of a
\* typed module
TModuleFieldUses(md) ==
    LET bodies == { TBlock(0, NUnit, md.functions[i].body.seq) : i \in 1..Len(md.functions) }
                  \cup { md.constants[i].value : i \in 1..Len(md.constants) }
    IN UNION { UNION { TExpFields(x) : x \in TExpsOf(b) }
               \cup UNION { TLValueFields(lv) : lv \in TLValuesOf(b) } : b \in bodies }

\* the locations of the declared fields of the structs of a typed module
ModuleFields(md) ==
    UNION { { [struct |-> md.structs[i].name, field |-> md.structs[i].sfields[j].name,
               loc |-> md.structs[i].sfields[j].loc] :
              j \in 1..Len(md.structs[i].sfields) } :
            i \in {k \in 1..Len(md.structs) : ~md.structs[k].native} }

\* the locations at which a StructField diagnostic has been emitted
StructFieldDiagLocs ==
    { context.diags[i].labels[1].loc :
      i \in {j \in 1..Len(context.diags) : context.diags[j].k = "StructField"} }

\* gen_unused_warnings has run for module m
ModuleWarned(m) == pc.m > m \/ (pc.m = m /\ pc.at \in {"exit", "done"})

\* C8: once gen_unused_warnings has run for a module, the StructField
\* diagnostics at the fields of that module are exactly: for a source
\* module, the declared fields that no pack, unpack, borrow-unpack or field
\* borrow of that same module references (uses in another module do not
\* count); for a module that is not a source module, none.
C8_UnusedFieldsPerModule ==
    \A m \in 1..Len(prog.modules) :
        ModuleWarned(m) =>
            LET md == prog.modules[m]
            IN StructFieldDiagLocs \cap {f.loc : f \in ModuleFields(md)} =
               IF md.is_source_module
               THEN {f.loc : f \in {g \in ModuleFields(md) :
                                       <<g.struct, g.field>> \notin TModuleFieldUses(md)}}
               ELSE {}

IsPackBody == Len(SourceBody) = 1 /\ SourceBody[1].k = "Seq"
              /\ SourceBody[1].sub[1].k = "Pack"

SourcePack == SourceBody[1].sub[1]

LoweredPack == LoweredLast.sub[1]

\* the declared index of a field of the struct S of the module
DeclaredIdx(fname) ==
    LET sfields == prog.modules[1].structs[1].sfields
    IN sfields[CHOOSE j \in 1..Len(sfields) : sfields[j].name = fname].idx

\* the position in the source of the expression of a field of the pack
SourceIdx(fname) ==
    SourcePack.pfields[CHOOSE j \in 1..Len(SourcePack.pfields) :
                          SourcePack.pfields[j].name = fname].exp_idx

\* the source order of the fields of the pack differs from the declared order
SourceOrderDiffers ==
    \E i \in 1..Len(SourcePack.pfields) :
        DeclaredIdx(SourcePack.pfields[i].name) # SourcePack.pfields[i].exp_idx

\* the assignments to temporaries among the statements before the last one
TempAssigns == SelectSeq(LoweredPrefix, IsTempAssign)

\* C9: for every struct pack (field expressions pure, inline side-effecting
\* or hoisting), the emitted Pack's field list is in ascending declared-index
\* order and contains each supplied field once, and the field expressions
\* are evaluated in source order (the lowered function makes the same calls
\* in the same order and packs the same value as the source function); when
\* the source order differs from the declared order, the result of the k-th
\* field expression in source order is assigned, right after its own
\* statements, to the k-th fresh temporary, and each field of the Pack is a
\* move out of the temporary of its expression.
C9_PackDeclaredOrder ==
    (SingleFunctionLowered /\ IsPackBody) =>
        /\ LoweredLast.k = "Return"
        /\ LoweredPack.k = "Pack"
        /\ Len(LoweredPack.pfields) = Len(SourcePack.pfields)
        /\ {LoweredPack.pfields[i].name : i \in 1..Len(LoweredPack.pfields)} =
           {SourcePack.pfields[i].name : i \in 1..Len(SourcePack.pfields)}
        /\ \A i, j \in 1..Len(LoweredPack.pfields) :
               i < j => DeclaredIdx(LoweredPack.pfields[i].name)
                            < DeclaredIdx(LoweredPack.pfields[j].name)
        /\ SameBehaviour(MaxFields)
        /\ SourceOrderDiffers =>
              /\ Len(TempAssigns) = Len(SourcePack.pfields)
              /\ LocsAscending(LoweredPrefix)
              /\ \A k \in 1..Len(TempAssigns) :
                     /\ TempAssigns[k].lvs[1].var = new_temp_name(k)
                     /\ TempAssigns[k].sub[1].loc = k
              /\ \A i \in 1..Len(LoweredPack.pfields) :
                     /\ IsTempMove(LoweredPack.sub[i])
                     /\ LoweredPack.sub[i].var =
                            TempAssigns[SourceIdx(LoweredPack.pfields[i].name) + 1].lvs[1].var

\* S { b: c1(), a: { x = c2(); x } } with declared order a, b: the source
\* order differs from the declared order and the first field expression in
\* source order has a side effect
C9_Witness ==
    /\ SingleFunctionLowered /\ IsPackBody
    /\ Len(SourcePack.pfields) = 2
    /\ SourceOrderDiffers
    /\ \E i \in 1..2 : SourcePack.pfields[i].exp_idx = 0 /\ SourcePack.sub[i].k = "ModuleCall"
    /\ \E i \in 1..2 : SourcePack.pfields[i].exp_idx = 1 /\ SourcePack.sub[i].k = "Block"
    /\ LoweredPack.k = "Pack"
    /\ \A i \in 1..2 : IsTempMove(LoweredPack.sub[i])

\* the Freeze nodes of the lowered functions
FreezeNodes ==
    UNION { UNION { {e \in BlockExps(b) : e.k = "Freeze"} : b \in BlocksOf(hf.body) } :
            hf \in LoweredFunctions }

\* C10: every Freeze node of a lowered function wraps an expression whose
\* type is a mutable reference &mut T and is itself typed &T for the same T:
\* its type differs from the type of the wrapped expression only in the
\* mutability of the reference.
C10_FreezeLegality ==
    \A e \in FreezeNodes :
        LET inner == e.sub[1].ty
        IN /\ inner.k = "Single"
           /\ inner.ss[1].k = "Ref"
           /\ inner.ss[1].mut
           /\ e.ty = TSingle(SRef(FALSE, inner.ss[1].b))

\* a lowered function with a Freeze node for a call argument or a returned
\* value, and one with a Freeze node for a component of a tuple
C10_Witness ==
    /\ FreezeNodes # {}
    /\ \E hf \in LoweredFunctions : \E b \in BlocksOf(hf.body) : \E e \in BlockExps(b) :
           /\ e.k = "Multiple"
           /\ \E i \in 1..Len(e.sub) : e.sub[i].k = "Freeze" /\ IsTempMove(e.sub[i].sub[1])

\* the body holds the sequence { stmt; }: stmt at location 1, its `;` at 2
IsTrailProgram ==
    \/ \E pos \in SeqPositions : \E kind \in StmtKinds : prog = TrailProgram(pos, kind)
    \/ prog = ReturnValueProgram

\* the sequence { stmt; } is the function body itself
IsTrailTail == IsTrailProgram /\ Len(SourceBody) = 2 /\ SourceBody[2].sub[1].trailing

\* the statements emitted for stmt, the item before the trailing unit
TrailTerminals ==
    UNION { { b[i] : i \in {j \in 1..Len(b) : b[j].loc = 1} } : b \in BlocksOf(LoweredBody) }

TrailingSemiDiags == SelectSeq(context.diags, LAMBDA d : d.k = "TrailingSemi")

\* a unit expression made for a trailing `;` occurs in the body
TrailingUnitLowered ==
    \E b \in BlocksOf(LoweredBody) : \E e \in BlockExps(b) :
        e.k = "Unit" /\ e.case = "Trailing"

\* C11: when a sequence's last item is a unit with the trailing-semicolon
\* flag and the last statement emitted into the target block is divergent,
\* exactly one TrailingSemi diagnostic is emitted, with three labels (the
\* semicolon, the terminal statement, the semicolon again), the trailing
\* unit is not lowered, and in tail position no synthetic return follows.
C11_TrailingSemiAfterDivergent ==
    (SingleFunctionLowered /\ IsTrailProgram
       /\ \E s \in TrailTerminals : divergent(s)) =>
        /\ Len(TrailingSemiDiags) = 1
        /\ [i \in 1..3 |-> TrailingSemiDiags[1].labels[i].loc] = <<2, 1, 2>>
        /\ ~TrailingUnitLowered
        /\ IsTrailTail =>
              /\ LoweredLast \in TrailTerminals
              /\ \A i \in 1..Len(LoweredBody) :
                    LoweredBody[i].k = "Return" => LoweredBody[i].from_user

SyntheticReturn(e) == [k |-> "Return", loc |-> e.loc, sub |-> <<e>>, from_user |-> FALSE]

IsSynthetic(stmt) == stmt.k = "Return" /\ ~stmt.from_user

\* the body ends in a synthetic return
EndsInSynthetic(hbody) == hbody # <<>> /\ IsSynthetic(hbody[Len(hbody)])

\* no synthetic return anywhere but at the end of the body
AtMostOneSynthetic(hbody) ==
    /\ \A i \in 1..(Len(hbody) - 1) : ~IsSynthetic(hbody[i])
    /\ \A b \in BlocksOf(hbody) \ {hbody} : \A i \in 1..Len(b) : ~IsSynthetic(b[i])

RECURSIVE TDiverges(_)
\* the typed expression never yields a value: return, abort, a loop without
\* break, an if/else whose branches both diverge, a block whose last
\* expression diverges
TDiverges(e) ==
    CASE e.k \in {"Return", "Abort"} -> TRUE
      [] e.k = "Loop" -> ~e.has_break
      [] e.k = "IfElse" -> TDiverges(e.sub[2]) /\ TDiverges(e.sub[3])
      [] e.k = "Block" ->
            /\ e.seq # <<>>
            /\ e.seq[Len(e.seq)].k = "Seq"
            /\ TDiverges(e.seq[Len(e.seq)].sub[1])
      [] OTHER -> FALSE

\* the tail expression of the sequence diverges
TailDiverges(seq) ==
    seq # <<>> /\ seq[Len(seq)].k = "Seq" /\ TDiverges(seq[Len(seq)].sub[1])

\* what function_body_defined must make of the result of `body`
WithSyntheticReturn(r) == IF IsSome(r.e) THEN Append(r.b, SyntheticReturn(r.e)) ELSE r.b

\* `body` for the function f, lowered from the context c
FunctionTail(c, f) ==
    LET sig == function_signature(add_warning_filter_scope(c, f.warning_filter),
                                  f.signature)
    IN body([sig.c EXCEPT !.signature = <<sig.sig>>], sig.sig.return_type,
            f.body.loc, f.body.seq)

\* `body` for the constant cdef, lowered from the context c
ConstantTail(c, cdef) ==
    LET fsig == [parameters |-> <<>>,
                 return_type |-> TSingle(SBase(base_type(cdef.signature)))]
        c1 == add_warning_filter_scope(c, cdef.warning_filter)
    IN body([c1 EXCEPT !.signature = <<fsig>>], fsig.return_type, cdef.loc,
            <<TSeq(cdef.value)>>)

\* the step lowers a defined function or a constant: the emitted body is the
\* block of `body` followed by a synthetic return exactly when `body`
\* yields a value
SyntheticReturnStep ==
    /\ (pc.at = "functions" /\ prog.modules[pc.m].functions[pc.i].body.k = "Defined") =>
          LET hfs == out'[pc.m].functions
          IN hfs[Len(hfs)].body =
                WithSyntheticReturn(FunctionTail(context, prog.modules[pc.m].functions[pc.i]))
    /\ pc.at = "constants" =>
          LET hks == out'[pc.m].constants
          IN hks[Len(hks)].body =
                WithSyntheticReturn(ConstantTail(context, prog.modules[pc.m].constants[pc.i]))

\* the bodies lowered so far hold at most one synthetic return, the last
\* statement; none when the tail expression diverges; an empty body is
\* the synthetic return of unit alone
SyntheticReturnPlaced ==
    \A m \in 1..Len(out) :
        /\ \A i \in 1..Len(out[m].functions) :
              LET sf == prog.modules[m].functions[i]
                  hf == out[m].functions[i]
              IN sf.body.k = "Defined" =>
                    /\ AtMostOneSynthetic(hf.body)
                    /\ TailDiverges(sf.body.seq) => ~EndsInSynthetic(hf.body)
                    /\ sf.body.seq = <<>> =>
                          hf.body = <<SyntheticReturn(unit_exp(sf.body.loc))>>
        /\ \A i \in 1..Len(out[m].constants) :
              AtMostOneSynthetic(out[m].constants[i].body)

\* C12: for every defined function or constant body a synthetic
\* Return { from_user: false } is appended as the last statement exactly
\* when lowering the body in tail position yields a value, never when the
\* tail diverges; a body holds at most one synthetic return; an empty
\* function body lowers to the synthetic return of unit alone.
C12_SyntheticReturn == [][SyntheticReturnStep]_vars /\ []SyntheticReturnPlaced

\* a lowered body that holds a user return in a branch and ends in the
\* synthetic return, the only one
C12_Witness ==
    /\ SingleFunctionLowered
    /\ SourceBody # <<>>
    /\ EndsInSynthetic(LoweredBody)
    /\ \E b \in BlocksOf(LoweredBody) \ {LoweredBody} : \E i \in 1..Len(b) :
           b[i].k = "Return" /\ b[i].from_user

\* the body is assert(cond, code): cond at location 1, code at 2, assert at 3
IsAssertBody ==
    /\ Len(SourceBody) = 1
    /\ SourceBody[1].k = "Seq"
    /\ SourceBody[1].sub[1].k = "Builtin"
    /\ SourceBody[1].sub[1].bt = "Assert"

AssertCond == SourceBody[1].sub[1].sub[1].sub[1]

AssertAbortCode == SourceBody[1].sub[1].sub[1].sub[2]

\* the statements of block made at location loc
StmtsAt(block, loc) == SelectSeq(block, LAMBDA s : s.loc = loc)

\* the IfElse statements made for the assert
AssertIfElses == SelectSeq(StmtsAt(LoweredBody, 3), LAMBDA s : s.k = "IfElse")

\* the operand hoists or is a statement: lowering it appends a statement
AppendsStatement(e) == e.k \in {"Block", "Abort"}

\* C13: for every assert builtin, lowering emits an IfElse on the lowered
\* condition with an empty then-block and an else-block ending in
\* Abort(code), and yields unit; in the abort-on-false (assert!) variant
\* the statements hoisted while lowering `code` are inside the else-block,
\* in the other variant they are in the enclosing block before the IfElse;
\* no statement produced while lowering the operands is discarded.
C13_AssertLowering ==
    (SingleFunctionLowered /\ IsAssertBody) =>
        /\ Len(AssertIfElses) = 1
        /\ LET ite == AssertIfElses[1]
               else_block == ite.else_block
           IN /\ ite.if_block = <<>>
              /\ else_block # <<>>
              /\ else_block[Len(else_block)].k = "Abort"
              /\ AppendsStatement(AssertAbortCode) =>
                    IF SourceBody[1].sub[1].is_macro
                    THEN /\ StmtsAt(else_block, 2) # <<>>
                         /\ StmtsAt(LoweredBody, 2) = <<>>
                    ELSE /\ StmtsAt(else_block, 2) = <<>>
                         /\ StmtsAt(LoweredBody, 2) # <<>>
                         /\ LoweredBody[Len(LoweredBody) - 1] = ite
        /\ AppendsStatement(AssertCond) => StmtsAt(LoweredBody, 1) # <<>>
        /\ AppendsStatement(AssertAbortCode) =>
              \E b \in BlocksOf(LoweredBody) : StmtsAt(b, 2) # <<>>
        /\ LoweredLast = SyntheticReturn(unit_exp(3))

\* the body is `let y: bool = e;`, alone or inside a loop
IsValueProgram == \E kind \in ValueKinds : prog = ValueProgram(kind)

\* some statement of the body assigns y: the initializer yielded a value
AssignsY ==
    \E b \in BlocksOf(LoweredBody) : \E i \in 1..Len(b) :
        /\ b[i].k = "Assign"
        /\ \E j \in 1..Len(b[i].lvs) : <<translate_var(VarY(3)), SBase(BuiltinB("bool"))>>
                                           \in LValueVars(b[i].lvs[j])

DeadCodeAt(loc) ==
    \E i \in 1..Len(context.diags) :
        /\ context.diags[i].k = "DeadCode"
        /\ context.diags[i].labels[1].loc = loc

\* C14: whenever lowering an expression in value position yields no
\* expression (return, abort, break, continue, a loop without break, an
\* if/else whose branches all diverge), a DeadCode diagnostic is emitted
\* at that expression's location.
C14_DeadCodeInValuePosition ==
    (SingleFunctionLowered /\ IsValueProgram /\ ~AssignsY) => DeadCodeAt(1)

\* the function has two parameters drawn from Vars
IsVarProgram == \E v \in Vars : \E w \in Vars \ {v} : prog = VarProgram(v, w)

SourceParameters == SourceFunction.signature.parameters

LoweredParameters == LoweredFunction.signature.parameters

\* C15: variable mangling is injective: two variables that differ in name,
\* id or color are translated to different symbols name#id#color;
\* display_var recovers the source name of a translated variable by
\* truncating at the first `#`; a translated variable is never classified
\* as a temporary, and every symbol made by new_temp_name is.
C15_VariableMangling ==
    (SingleFunctionLowered /\ IsVarProgram) =>
        /\ \A i, j \in 1..Len(SourceParameters) :
              SourceParameters[i].nvar # SourceParameters[j].nvar =>
                  LoweredParameters[i].var # LoweredParameters[j].var
        /\ \A i \in 1..Len(SourceParameters) :
              LET v == SourceParameters[i].nvar
                  s == LoweredParameters[i].var
              IN /\ s = v.name \o <<"#">> \o Decimal(v.id) \o <<"#">> \o Decimal(v.color)
                 /\ display_var(s) = [k |-> "Orig", orig |-> v.name]
                 /\ ~is_temp_name(s)
                 /\ s \in DOMAIN LoweredFunction.locals
        /\ \A s \in DOMAIN LoweredFunction.locals :
              \/ \E i \in 1..Len(LoweredParameters) : s = LoweredParameters[i].var
              \/ /\ \E n \in 1..Cardinality(DOMAIN LoweredFunction.locals) :
                       s = new_temp_name(n)
                 /\ is_temp_name(s)
                 /\ display_var(s).k = "Tmp"

\* the parameters x#1#23 and x#12#3 and one temporary in the locals
C15_Witness ==
    /\ SingleFunctionLowered
    /\ prog = VarProgram(NVar(<<"x">>, 1, 23), NVar(<<"x">>, 12, 3))
    /\ LoweredParameters[1].var = <<"x", "#", "1", "#", "2", "3">>
    /\ LoweredParameters[2].var = <<"x", "#", "1", "2", "#", "3">>
    /\ new_temp_name(1) \in DOMAIN LoweredFunction.locals

\* the per-function state of the context is clear
PerFunctionStateClear ==
    /\ context.function_locals = EmptyMap
    /\ context.tmp_counter = 0
    /\ context.signature = NoSignature
    /\ context.named_block_binders = EmptyMap
    /\ context.named_block_types = EmptyMap

\* C16: after any sequence of function, native-function and constant
\* lowerings, at the entry of the next function lowering the per-function
\* state is clear (function_locals empty, tmp_counter 0, signature None,
\* named_block_binders and named_block_types empty); the two assertions at
\* the start of `function` never fail and no loop binder registered in one
\* function is visible in another.
C16_PerFunctionStateClear ==
    /\ pc.at = "functions" => PerFunctionStateClear
    /\ \A i \in 1..Len(context.ice) :
          context.ice[i] \notin {"assert has_empty_locals", "assert tmp_counter == 0",
                                 "ICE reused block name"}

\* the second function with a loop labelled l is about to be lowered, after
\* a first one whose lowering registered l and made locals
C16_Witness ==
    /\ pc.at = "functions"
    /\ pc.i > 1
    /\ \E kinds \in [1..MaxFunctions -> FunKinds] :
          /\ prog = FunctionsProgram(kinds)
          /\ kinds[pc.i] = "Loop"
          /\ \E j \in 1..(pc.i - 1) : kinds[j] = "Loop"
    /\ \E hf \in LoweredFunctions : DOMAIN hf.locals # {} /\ TempsOf(hf.locals) # {}
    /\ PerFunctionStateClear

\* C17: warning-filter scopes are balanced: every add_warning_filter_scope
\* made while lowering a module, script, struct, constant or function, and
\* per struct in the unused-field sweep, is matched by one
\* pop_warning_filter_scope on every path out of the item, the paths that
\* emit diagnostics included: between the items of a module or script the
\* stack holds the scope of that module or script alone, before and after
\* each module and after `program` it is empty, and no pop finds it empty.
C17_WarningScopesBalanced ==
    /\ pc.at \in {"enter", "done"} => context.scopes = <<>>
    /\ pc.at \in {"structs", "constants", "functions", "unused", "exit"} =>
          context.scopes = <<prog.modules[pc.m].warning_filter>>
    /\ \A i \in 1..Len(context.ice) :
          context.ice[i] # "pop of empty warning filter scope"

\* `program` has returned for a module and a script, with an unused-field
\* warning of the sweep and a dead-code warning of the script's function
C17_Witness ==
    /\ pc.at = "done"
    /\ Len(out) = 2
    /\ out[2].is_script
    /\ out[1].structs # <<>>
    /\ \E i \in 1..Len(context.diags) : context.diags[i].k = "StructField"
    /\ \E i \in 1..Len(context.diags) : context.diags[i].k = "DeadCode"
    /\ context.scopes = <<>>

\* the body is the call g(e) of one argument
IsSingleArgBody ==
    /\ Len(SourceBody) = 1
    /\ SourceBody[1].k = "Seq"
    /\ SourceBody[1].sub[1].k = "ModuleCall"
    /\ SourceBody[1].sub[1].name = "g"
    /\ Len(SourceBody[1].sub[1].nparams) = 1

\* the type of the argument and the type of the parameter of g
ArgActual == single_type(TCallArgs(SourceBody[1].sub[1])[1].nty)

ArgExpected == single_type(SourceBody[1].sub[1].nparams[1])

\* &mut T against &T, for the same T
MutAgainstImmOfSameType(actual, expected) ==
    /\ actual.k = "Ref" /\ actual.mut
    /\ expected.k = "Ref" /\ ~expected.mut
    /\ actual.b = expected.b

\* C18: needs_freeze on two single types returns Point if and only if the
\* actual type is &mut T and the expected type is &T for the same T; for
\* any other pair of single types (&mut T against &U with U other than T
\* included) it returns NotNeeded, and the argument is not frozen.
C18_NeedsFreezeSingle ==
    (SingleFunctionLowered /\ IsSingleArgBody) =>
        /\ needs_freeze(TSingle(ArgActual), TSingle(ArgExpected)).k =
              IF MutAgainstImmOfSameType(ArgActual, ArgExpected)
              THEN "Point" ELSE "NotNeeded"
        /\ FreezeNodes # {} <=> MutAgainstImmOfSameType(ArgActual, ArgExpected)

\* the body is let (y1, y2): (T1, T2) = e; with e a tuple
IsTupleBody ==
    /\ Len(SourceBody) = 2
    /\ SourceBody[1].k = "Bind"
    /\ Len(SourceBody[1].lvs) = 2

\* the component types of e and the declared types of y1, y2
TupleActual == type_(SourceBody[1].sub[1].nty).ss

TupleExpected == [i \in 1..2 |-> single_type(SourceBody[1].lvs[i].nty)]

\* component i is &mut in the actual type and & in the expected type
TuplePoint(i) ==
    /\ TupleActual[i].k = "Ref" /\ TupleActual[i].mut
    /\ TupleExpected[i].k = "Ref" /\ ~TupleExpected[i].mut

TempMove(i, sty) ==
    /\ LoweredBody[2].sub[1].sub[i].k = "Move"
    /\ LoweredBody[2].sub[1].sub[i].var = new_temp_name(i)
    /\ LoweredBody[2].sub[1].sub[i].ty = TSingle(sty)

\* the lowered e, as it is without a freeze
UnchangedTuple(e) ==
    /\ e.ty = TMultiple(TupleActual)
    /\ \/ e.k = "ModuleCall"
       \/ e.k = "Multiple" /\ \A i \in 1..2 : e.sub[i].k = "Copy"

\* C19: when a tuple-typed expression is frozen against a tuple type of the
\* same arity and a component needs freezing, the expression is first
\* assigned to one fresh temporary per component and the result is a
\* Multiple of the same arity whose component i is Freeze(move temp_i)
\* exactly when component i is &mut in the actual type and & in the
\* expected type, and the plain move of temp_i otherwise; when no component
\* needs freezing nothing is bound and the expression is unchanged.
C19_TupleFreeze ==
    (SingleFunctionLowered /\ IsTupleBody) =>
        IF \E i \in 1..2 : TuplePoint(i)
        THEN /\ Len(LoweredBody) >= 2
             /\ LoweredBody[1].k = "Assign"
             /\ UnchangedTuple(LoweredBody[1].sub[1])
             /\ Len(LoweredBody[1].lvs) = 2
             /\ \A i \in 1..2 :
                   /\ LoweredBody[1].lvs[i].k = "Var"
                   /\ LoweredBody[1].lvs[i].var = new_temp_name(i)
                   /\ LoweredBody[1].lvs[i].sty = TupleActual[i]
             /\ TempsOf(LoweredFunction.locals) = {new_temp_name(1), new_temp_name(2)}
             /\ LoweredBody[2].k = "Assign"
             /\ LoweredBody[2].sub[1].k = "Multiple"
             /\ Len(LoweredBody[2].sub[1].sub) = 2
             /\ LoweredBody[2].sub[1].ty = TMultiple(TupleExpected)
             /\ \A i \in 1..2 :
                   IF TuplePoint(i)
                   THEN /\ LoweredBody[2].sub[1].sub[i].k = "Freeze"
                        /\ LoweredBody[2].sub[1].sub[i].sub[1].k = "Move"
                        /\ LoweredBody[2].sub[1].sub[i].sub[1].var = new_temp_name(i)
                        /\ LoweredBody[2].sub[1].sub[i].sub[1].ty = TSingle(TupleActual[i])
                        /\ LoweredBody[2].sub[1].sub[i].ty = TSingle(TupleExpected[i])
                   ELSE TempMove(i, TupleActual[i])
        ELSE /\ TempsOf(LoweredFunction.locals) = {}
             /\ FreezeNodes = {}
             /\ LoweredBody[1].k = "Assign"
             /\ UnchangedTuple(LoweredBody[1].sub[1])
             /\ \A i \in 1..2 : LoweredBody[1].lvs[i].var = translate_var(VarY(i))

\* the tuple h(): (&mut u64, &mut u64) bound to (y1: &u64, y2: &mut u64):
\* two temporaries, the first frozen, the second moved
C19_Witness ==
    /\ SingleFunctionLowered
    /\ IsTupleBody
    /\ SourceBody[1].sub[1].k = "ModuleCall"
    /\ TuplePoint(1)
    /\ ~TuplePoint(2)
    /\ TupleActual[2].k = "Ref"
    /\ LoweredBody[2].sub[1].sub[1].k = "Freeze"
    /\ TempMove(2, TupleActual[2])

\* the IfElse statements of the lowered functions
IfElseStatements ==
    UNION { UNION { { b[i] : i \in {j \in 1..Len(b) : b[j].k = "IfElse"} } :
                    b \in BlocksOf(hf.body) } :
            hf \in LoweredFunctions }

\* the last statement of the block is divergent
LastDivergent(block) == block # <<>> /\ divergent(block[Len(block)])

\* C20: divergent(IfElse) is true if and only if the last statement of the
\* if-block and the last statement of the else-block are both divergent
\* statements, as judged by the same predicate (a terminal command, a
\* nested IfElse whose branches both diverge, a While ending in abort or
\* return, a Loop without break); an IfElse with an empty branch is not
\* divergent.
C20_DivergentIfElse ==
    \A s \in IfElseStatements :
        divergent(s) <=> (LastDivergent(s.if_block) /\ LastDivergent(s.else_block))

\* the statements of the lowered functions, IfElse apart
PlainStatements ==
    UNION { UNION { { b[i] : i \in {j \in 1..Len(b) : b[j].k # "IfElse"} } :
                    b \in BlocksOf(hf.body) } :
            hf \in LoweredFunctions }

IsWhileProgram ==
    \E pos \in SeqPositions : \E ck \in WhileConds : \E bk \in WhileBodies :
        prog = WhileProgram(pos, ck, bk)

\* the while is a statement followed by `;`
IsWhileStatement == IsWhileProgram /\ Len(SourceBody) = 2 /\ SourceBody[1].k = "Seq"

\* the body of the source while
SourceWhileBody == SourceBody[1].sub[1].sub[2]

\* C21: divergent is true for every Abort, Return, Break and Continue
\* command; for a While exactly when the last statement of its body is an
\* Abort or Return command (not for a body ending in Break or Continue, nor
\* for `while (true)` with another last statement); for a Loop exactly when
\* has_break is false; false for every other statement.  So the `;` after
\* a While statement is reported exactly when its body is a return or an
\* abort.
C21_DivergentStatements ==
    /\ \A s \in PlainStatements :
          divergent(s) <=>
             CASE s.k \in {"Abort", "Return", "Break", "Continue"} -> TRUE
               [] s.k = "While" ->
                     s.block # <<>> /\ s.block[Len(s.block)].k \in {"Abort", "Return"}
               [] s.k = "Loop" -> ~s.has_break
               [] OTHER -> FALSE
    /\ (SingleFunctionLowered /\ IsWhileStatement /\ LoweredBody[1].k = "While") =>
          (TrailingSemiDiags # <<>> <=> SourceWhileBody.k \in {"Return", "Abort"})

\* a while (true) whose body ends in a break, lowered as a statement, not
\* divergent, beside statements of every other kind
C21_Witness ==
    /\ SingleFunctionLowered
    /\ prog = WhileProgram("Stmt", "True", "Break")
    /\ \E s \in PlainStatements :
          s.k = "While" /\ s.block # <<>> /\ s.block[Len(s.block)].k = "Break"
                        /\ ~divergent(s)
    /\ TrailingSemiDiags = <<>>

\* the body is `loop { c1(); }`, a loop without break as the tail expression
IsTailLoopBody == prog = TailProgram("Loop")

\* C22: lowering a loop whose has_break is false, in tail position, emits
\* the Loop statement, registers no binders and creates no temporaries for
\* the loop's name, and returns None.
C22_TailLoopWithoutBreak ==
    /\ (IsTailLoopBody /\ pc.at = "functions") =>
          LET r == FunctionTail(context, SourceFunction)
              name == translate_var(SourceBody[1].sub[1].nvar)
          IN /\ Len(r.b) = 1
             /\ r.b[1].k = "Loop"
             /\ ~r.b[1].has_break
             /\ ~IsSome(r.e)
             /\ name \in DOMAIN r.c.named_block_binders =>
                   r.c.named_block_binders[name] = <<>>
             /\ TempsOf(r.c.function_locals) = {}
             /\ r.c.tmp_counter = 0
    /\ (IsTailLoopBody /\ SingleFunctionLowered) =>
          /\ TempsOf(LoweredFunction.locals) = {}
          /\ Len(LoweredBody) = 1

\* the program is one of the loops with a break
IsLoopProgram ==
    \/ \E pos \in SeqPositions : \E gk \in GiveKinds : prog = LoopProgram(pos, gk)
    \/ \E gk1 \in GiveKinds : \E gk2 \in GiveKinds : prog = TwoLoopsProgram(gk1, gk2)

\* the source loops of the function body, outermost expressions of its items
SourceLoops ==
    {SourceBody[i].sub[1] : i \in {j \in 1..Len(SourceBody) : SourceBody[j].sub[1].k = "Loop"}}

\* the lowered Loop statement of the source loop l
LoopStatement(block, l) == StmtsAt(block, l.loc)[1]

\* the statements of the blocks of a loop body that stand right before a Break
BeforeBreaks(block) ==
    UNION { {b[i - 1] : i \in {j \in 2..Len(b) : b[j].k = "Break"}} : b \in BlocksOf(block) }

\* the breaks of the blocks of a loop body that nothing precedes
FirstBreaks(block) == {b[1] : b \in {a \in BlocksOf(block) : a # <<>> /\ a[1].k = "Break"}}

\* the binders registered for the source loop l are temporaries of its type
BindersOfLoopType(r, l) ==
    LET name == translate_var(l.nvar)
        ty == type_(l.nty)
        binders == r.c.named_block_binders[name]
    IN /\ r.c.named_block_types[name] = ty
       /\ Len(binders) = (IF ty.k = "Unit" THEN 0 ELSE 1)
       /\ \A i \in 1..Len(binders) :
             /\ binders[i].k = "Var"
             /\ is_temp_name(binders[i].var)
             /\ binders[i].sty = ty.ss[1]
             /\ r.c.function_locals[binders[i].var] = ty.ss[1]

\* C23: lowering a loop with a break synthesizes binders of the loop's
\* result type and registers them, with the result type, under the loop's
\* name before the body is lowered (the breaks of the body, unless their
\* value aborts, assign exactly those binders); distinct loop names never
\* meet the 'reused block name' failure; in tail position the result is a
\* unit of case Trailing when the binders are empty and the expression that
\* reads the binders otherwise.
C23_LoopWithBreak ==
    (IsLoopProgram /\ pc.at = "functions") =>
       LET r == FunctionTail(context, SourceFunction)
           last == SourceBody[Len(SourceBody)]
       IN /\ r.c.ice = <<>>
          /\ DOMAIN r.c.named_block_binders = {translate_var(l.nvar) : l \in SourceLoops}
          /\ DOMAIN r.c.named_block_types = DOMAIN r.c.named_block_binders
          /\ \A l \in SourceLoops :
                LET name == translate_var(l.nvar)
                    binders == r.c.named_block_binders[name]
                    s == LoopStatement(r.b, l)
                IN /\ BindersOfLoopType(r, l)
                   /\ s.k = "Loop" /\ s.has_break /\ s.var = name
                   /\ \A a \in BeforeBreaks(s.block) :
                         (binders # <<>> /\ a.k # "Abort") =>
                            (a.k = "Assign" /\ a.lvs = binders)
                   /\ FirstBreaks(s.block) # {} => binders = <<>>
                   /\ \A m \in SourceLoops :
                         m # l => \A i \in 1..Len(binders) :
                                     \A j \in 1..Len(r.c.named_block_binders[translate_var(m.nvar)]) :
                                        binders[i].var # r.c.named_block_binders[translate_var(m.nvar)][j].var
          /\ (last.k = "Seq" /\ last.sub[1].k = "Loop") =>
                LET binders == r.c.named_block_binders[translate_var(last.sub[1].nvar)]
                IN IF binders = <<>>
                   THEN r.e = trailing_unit_exp(last.sub[1].loc)
                   ELSE /\ r.e.k = "Move"
                        /\ r.e.var = binders[1].var
                        /\ r.e.ty = type_(last.sub[1].nty)

\* a function with two loops is being lowered: the first yields a value to a
\* let, the second is the tail expression `loop { break }`
C23_Witness ==
    /\ \E gk \in GiveKinds \ {"Unit"} : prog = TwoLoopsProgram(gk, "Unit")
    /\ pc.at = "functions"
    /\ Len(FunctionTail(context, SourceFunction).c.named_block_binders[translate_var(Label(1))]) = 1
    /\ FunctionTail(context, SourceFunction).e = trailing_unit_exp(2)

\* the while is the tail expression, or the initializer of a let
IsWhileTail == IsWhileProgram /\ Len(SourceBody) = 1
IsWhileValue == IsWhileProgram /\ Len(SourceBody) = 2 /\ SourceBody[1].k = "Bind"

\* the source while, and whether its condition yields a value
SourceWhile == SourceBody[1].sub[1]
WhileCondYields == ~TDiverges(SourceWhile.sub[1])

\* what the lowering of the while yielded: the result of `tail`, or the
\* right-hand side of the assignment that the let became
WhileYield(r) == IF IsWhileTail THEN r.e ELSE StmtsAt(r.b, 3)[1].sub[1]

\* the While statement is the first statement, under the name of the source
\* while; its cond-block holds the statements the condition hoisted, none of
\* which is in the block around it
WhileEmitted(r) ==
    /\ r.b # <<>>
    /\ r.b[1].k = "While"
    /\ r.b[1].loc = SourceWhile.loc
    /\ r.b[1].var = translate_var(SourceWhile.nvar)
    /\ r.b[1].cond_block = StmtsAt(r.b[1].cond_block, SourceWhile.sub[1].loc)
    /\ Len(r.b[1].cond_block) = (IF SourceWhile.sub[1].k = "Block" THEN 1 ELSE 0)
    /\ StmtsAt(r.b, SourceWhile.sub[1].loc) = <<>>

\* empty binders and the type unit are registered under the name of the while
WhileRegistered(r) ==
    LET name == translate_var(SourceWhile.nvar)
    IN /\ name \in DOMAIN r.c.named_block_binders
       /\ r.c.named_block_binders[name] = <<>>
       /\ name \in DOMAIN r.c.named_block_types
       /\ r.c.named_block_types[name] = tunit

\* the claim as stated: a while in value or tail position emits the While
\* statement, with empty binders and the type unit registered and the
\* condition's statements in the cond-block, and yields a unit of case
\* Trailing
C24_WhileYieldsTrailingUnit ==
    ((IsWhileTail \/ IsWhileValue) /\ pc.at = "functions") =>
       LET r == FunctionTail(context, SourceFunction)
       IN /\ WhileEmitted(r)
          /\ WhileRegistered(r)
          /\ WhileYield(r) = UnitE(SourceWhile.loc, "Trailing")

\* C24 (amended): a while in value or tail position registers empty binders
\* and the type unit under its name; when its condition yields a value the
\* While statement is emitted with the condition's hoisted statements in its
\* cond-block, and when the condition diverges no While is emitted and the
\* condition's statements go to the block; the expression yielded is a unit
\* of case Trailing in tail position and of case Implicit in value position.
C24_WhileYieldsUnit ==
    ((IsWhileTail \/ IsWhileValue) /\ pc.at = "functions") =>
       LET r == FunctionTail(context, SourceFunction)
       IN /\ r.c.ice = <<>>
          /\ WhileRegistered(r)
          /\ IF WhileCondYields THEN WhileEmitted(r)
             ELSE /\ \A b \in BlocksOf(r.b) : \A i \in 1..Len(b) : b[i].k # "While"
                  /\ r.b[1].k = "Abort" /\ r.b[1].loc = SourceWhile.sub[1].loc
          /\ WhileYield(r) = UnitE(SourceWhile.loc,
                                    IF IsWhileTail THEN "Trailing" ELSE "Implicit")

\* let () = while (cond) { .. } with a condition that hoists a statement
\* is being lowered: the While holds the statement, the let is assigned an
\* implicit unit
C24_Witness ==
    /\ IsWhileValue
    /\ pc.at = "functions"
    /\ SourceWhile.sub[1].k = "Block"
    /\ Len(FunctionTail(context, SourceFunction).b[1].cond_block) = 1
    /\ WhileYield(FunctionTail(context, SourceFunction)).case = "Implicit"

\* the gives of the source loop l: its body, or the branches of the if/else
\* that is its body
SourceGives(l) ==
    IF l.sub[1].k = "Give" THEN {l.sub[1]} ELSE {l.sub[1].sub[2], l.sub[1].sub[3]}

\* the give at the location loc
GiveAt(l, loc) == CHOOSE g \in SourceGives(l) : g.loc = loc

\* the blocks of the lowered loop statement s that end in a Break
BreakBlocks(s) == {b \in BlocksOf(s.block) : \E j \in 1..Len(b) : b[j].k = "Break"}

\* the statements before the first Break of the block b
BeforeBreak(b) ==
    SubSeq(b, 1, (CHOOSE j \in 1..Len(b) : b[j].k = "Break" /\ \A i \in 1..(j - 1) : b[i].k # "Break") - 1)

\* the Break of the name is the last statement of the block b, and the only
\* Break of b
BreakLast(b, name) ==
    /\ b[Len(b)].k = "Break"
    /\ b[Len(b)].var = name
    /\ Len(BeforeBreak(b)) = Len(b) - 1

\* the statements pre end in one assignment of a value of the type ty to
\* the binders, after the statements hoisted from the value g
AssignsBinders(pre, binders, ty, g) ==
    /\ pre # <<>>
    /\ pre[Len(pre)].k = "Assign"
    /\ pre[Len(pre)].lvs = binders
    /\ pre[Len(pre)].sub[1].ty = ty
    /\ Len(pre) = 1 + (IF g.k = "Block" THEN 1 ELSE 0)
    /\ \A i \in 1..(Len(pre) - 1) : pre[i].loc = g.loc /\ pre[i].lvs # binders

\* the statements pre are one IgnoreAndPop of the lowered value g
IgnoresValue(pre, g) ==
    /\ Len(pre) = 1
    /\ pre[1].k = "IgnoreAndPop"
    /\ pre[1].pop_num = 0
    /\ pre[1].sub[1].k = g.k /\ pre[1].sub[1].loc = g.loc

\* the result of the loop l reads the binders: the Move of the temporary,
\* at the location of the loop, is in the result of `tail` or in a statement
ResultReads(r, l, binders) ==
    \A i \in 1..Len(binders) :
       \E e \in BlockExps(r.b) \cup (IF IsSome(r.e) THEN ExpsOf(r.e) ELSE {}) :
          e.k = "Move" /\ e.var = binders[i].var /\ e.loc = l.loc

\* the claim as stated: every give of a loop is lowered to the statements
\* hoisted from its value, one assignment of the value to the binders
\* registered for the loop (an IgnoreAndPop of the value when the binders
\* are empty), and Break as the last statement
C25_GiveAssignsBinders ==
    (IsLoopProgram /\ pc.at = "functions") =>
       LET r == FunctionTail(context, SourceFunction)
       IN \A l \in SourceLoops :
             LET name == translate_var(l.nvar)
                 binders == r.c.named_block_binders[name]
                 s == LoopStatement(r.b, l)
             IN /\ Cardinality(BreakBlocks(s)) = Cardinality(SourceGives(l))
                /\ \A b \in BreakBlocks(s) :
                      LET g == GiveAt(l, b[Len(b)].loc).sub[1]
                      IN /\ BreakLast(b, name)
                         /\ IF binders = <<>> THEN IgnoresValue(BeforeBreak(b), g)
                            ELSE AssignsBinders(BeforeBreak(b), binders,
                                                r.c.named_block_types[name], g)
                /\ ResultReads(r, l, binders)

\* C25 (amended): for every give of a loop the binder lookup succeeds, the
\* value is lowered with the loop's registered type as expected type, and
\* the statements emitted are the statements hoisted from the value, then,
\* when the value is reachable, one assignment of it to exactly the binders
\* registered for the loop or, when the binders are empty, an IgnoreAndPop
\* of it unless it is a unit or a literal; when the value diverges nothing
\* is assigned; then Break as the last statement.  Every give of a loop
\* assigns the binders that the loop's result reads.
C25_GiveLowering ==
    (IsLoopProgram /\ pc.at = "functions") =>
       LET r == FunctionTail(context, SourceFunction)
       IN /\ r.c.ice = <<>>
          /\ \A l \in SourceLoops :
                LET name == translate_var(l.nvar)
                    binders == r.c.named_block_binders[name]
                    s == LoopStatement(r.b, l)
                IN /\ Cardinality(BreakBlocks(s)) = Cardinality(SourceGives(l))
                   /\ \A b \in BreakBlocks(s) :
                         LET g == GiveAt(l, b[Len(b)].loc).sub[1]
                             pre == BeforeBreak(b)
                         IN /\ BreakLast(b, name)
                            /\ CASE TDiverges(g) ->
                                       Len(pre) = 1 /\ pre[1].k = "Abort" /\ pre[1].loc = g.loc
                                 [] binders = <<>> /\ g.k \in {"Unit", "Value"} -> pre = <<>>
                                 [] binders = <<>> -> IgnoresValue(pre, g)
                                 [] OTHER ->
                                       AssignsBinders(pre, binders,
                                                      r.c.named_block_types[name], g)
                   /\ ResultReads(r, l, binders)

\* a loop with a break in each branch of an if/else and a loop of type &u64
\* with `break r` for r: &mut u64 are being lowered: both breaks of the first
\* assign its one binder, the break of the second assigns the frozen r
C25_Witness ==
    /\ prog = TwoLoopsProgram("Two", "Freeze")
    /\ pc.at = "functions"
    /\ Cardinality(BreakBlocks(LoopStatement(FunctionTail(context, SourceFunction).b,
                                             SourceBody[1].sub[1]))) = 2
    /\ \E b \in BreakBlocks(LoopStatement(FunctionTail(context, SourceFunction).b,
                                          SourceBody[2].sub[1])) :
          b[1].k = "Assign" /\ b[1].sub[1].k = "Freeze"

\* the program is an if/else in value or tail position
IsIfProgram ==
    \E pos \in {"Tail", "Value"} : \E ck \in IfConds :
       \E bk1 \in BranchKinds : \E bk2 \in BranchKinds : prog = IfProgram(pos, ck, bk1, bk2)

\* the source if/else, and what its lowering yielded: the result of `tail`,
\* or the right-hand side of the assignment that the let became
SourceIf == SourceBody[1].sub[1]
IfYield(r) ==
    IF Len(SourceBody) = 1 THEN r.e
    ELSE IF StmtsAt(r.b, 3) = <<>> THEN NoneExp ELSE StmtsAt(r.b, 3)[1].sub[1]

\* the number of if/else expressions among the branches of the source if/else
NestedIfs == Cardinality({i \in 2..3 : SourceIf.sub[i].k = "IfElse"})

\* the branch block ends with the assignment of a value of the type ty to
\* the binder t, its only assignment to t
BranchAssigns(block, t, ty) ==
    /\ block # <<>>
    /\ block[Len(block)].k = "Assign"
    /\ block[Len(block)].lvs = <<LVar(SourceIf.loc, t, ty.ss[1])>>
    /\ block[Len(block)].sub[1].ty = ty
    /\ \A i \in 1..(Len(block) - 1) :
          block[i].k = "Assign" => block[i].lvs # block[Len(block)].lvs

\* no block of the branch assigns the binder t
BranchLeaves(block, t) ==
    \A b \in BlocksOf(block) : \A i \in 1..Len(b) :
       b[i].k = "Assign" => \A j \in 1..Len(b[i].lvs) : b[i].lvs[j].var # t

\* C26: for an if/else in value or tail position with a reachable condition,
\* one set of fresh binders of the if/else's type is created; each branch
\* that yields a value ends with an assignment of it to those binders and a
\* branch that diverges gets no assignment; the IfElse statement is appended
\* after the condition's statements; the result reads the binders if a
\* branch assigned and is None if neither did.
C26_IfElseBinders ==
    (IsIfProgram /\ ~TDiverges(SourceIf.sub[1]) /\ pc.at = "functions") =>
       LET r == FunctionTail(context, SourceFunction)
           ty == type_(SourceIf.nty)
           n == IF SourceIf.sub[1].k = "Block" THEN 1 ELSE 0
           s == r.b[n + 1]
       IN /\ r.c.ice = <<>>
          /\ Cardinality(TempsOf(r.c.function_locals)) = 1 + NestedIfs
          /\ Len(r.b) >= n + 1
          /\ \A i \in 1..n : r.b[i].loc = SourceIf.sub[1].loc
          /\ s.k = "IfElse" /\ s.loc = SourceIf.loc
          /\ Len(StmtsAt(r.b, SourceIf.loc)) = 1
          /\ \E t \in TempsOf(r.c.function_locals) :
                /\ r.c.function_locals[t] = ty.ss[1]
                /\ IF TDiverges(SourceIf.sub[2]) THEN BranchLeaves(s.if_block, t)
                   ELSE BranchAssigns(s.if_block, t, ty)
                /\ IF TDiverges(SourceIf.sub[3]) THEN BranchLeaves(s.else_block, t)
                   ELSE BranchAssigns(s.else_block, t, ty)
                /\ IfYield(r) =
                      IF TDiverges(SourceIf.sub[2]) /\ TDiverges(SourceIf.sub[3])
                      THEN NoneExp
                      ELSE MoveE(SourceIf.loc, ty, "InferredLastUsage", t)

\* an if/else whose condition hoists a statement, whose then-branch is a
\* nested if/else and whose else-branch aborts, is being lowered in tail
\* position: two temporaries, the else-block is the Abort alone
C26_Witness ==
    /\ prog = IfProgram("Tail", "Hoist", "Nested", "Abort")
    /\ pc.at = "functions"
    /\ Cardinality(TempsOf(FunctionTail(context, SourceFunction).c.function_locals)) = 2
    /\ FunctionTail(context, SourceFunction).b[2].else_block[1].k = "Abort"
    /\ IsSome(FunctionTail(context, SourceFunction).e)

\* the program is an expression with a value in statement position
IsExpStatement ==
    \E kind \in ExpKinds : \E nested \in BOOLEAN : prog = ExpStatementProgram(kind, nested)

\* the source expression, and the block its statements are emitted to: the
\* then-block of the if/else around it, or the body without the Return of
\* the trailing unit
SourceExp ==
    IF SourceBody[1].sub[1].loc = 3 THEN SourceBody[1].sub[1].sub[2]
    ELSE SourceBody[1].sub[1]
ExpBlock ==
    IF SourceBody[1].sub[1].loc = 3 THEN LoweredBody[1].if_block
    ELSE SelectSeq(LoweredBody, LAMBDA s : s.loc # 2)

\* the arity of a type: 0 for unit, 1 for a single type, n for an n-tuple
Arity(ty) == IF ty.k = "Unit" THEN 0 ELSE IF ty.k = "Single" THEN 1 ELSE Len(ty.ss)

\* every statement of every emitted block
AllStatements ==
    UNION { UNION { { b[i] : i \in 1..Len(b) } : b \in BlocksOf(hf.body) } :
            hf \in LoweredFunctions }

\* the statements and the commands of the lowered form
StatementKinds ==
    {"IfElse", "While", "Loop", "Assign", "Mutate", "Abort", "Return", "Break", "Continue",
     "IgnoreAndPop"}

\* the block is the IgnoreAndPop of the lowered expression e alone
PopsValue(block, e) ==
    /\ Len(block) = 1
    /\ block[1].k = "IgnoreAndPop"
    /\ block[1].loc = e.loc
    /\ block[1].sub[1].ty = type_(e.nty)
    /\ block[1].pop_num = Arity(type_(e.nty))

\* the claim as stated: an expression with a value in statement position
\* that is not a literal or a unit is emitted as an IgnoreAndPop with the
\* arity of its type; a literal or a unit emits nothing
C27_ValuedStatementsPopped ==
    (IsExpStatement /\ SingleFunctionLowered) =>
       IF SourceExp.k \in {"Value", "Unit"} THEN ExpBlock = <<>>
       ELSE PopsValue(ExpBlock, SourceExp)

\* C27 (amended): an expression with a value in statement position is
\* lowered as a value and, when that yields an expression other than a Unit
\* or Value expression of type unit, emitted as one IgnoreAndPop whose
\* pop_num is the arity of the expression's type (0, 1, n); when the
\* lowering yields no expression (a call whose argument aborts) or a unit
\* (an assert) no IgnoreAndPop is emitted; a source literal or unit emits
\* nothing; every IgnoreAndPop of every block has the arity of its
\* expression's type, and every element of a block is a statement or a
\* command.
C27_IgnoreAndPopArity ==
    /\ \A s \in AllStatements :
          /\ s.k \in StatementKinds
          /\ s.k = "IgnoreAndPop" =>
                /\ s.pop_num = Arity(s.sub[1].ty)
                /\ ~(s.sub[1].ty.k = "Unit" /\ s.sub[1].k \in {"Unit", "Value"})
    /\ (IsExpStatement /\ SingleFunctionLowered) =>
          CASE SourceExp.k \in {"Value", "Unit"} -> ExpBlock = <<>>
            [] SourceExp.k = "Builtin" ->
                  /\ Len(ExpBlock) = 1
                  /\ ExpBlock[1].k = "IfElse"
            [] SourceExp.k = "ModuleCall" /\ TDiverges(SourceExp.sub[1]) ->
                  /\ Len(ExpBlock) = 1
                  /\ ExpBlock[1].k = "Abort"
            [] OTHER -> PopsValue(ExpBlock, SourceExp)

\* `p();` for a call of type (bool, bool) and `(x, true, x);` are lowered
\* to an IgnoreAndPop of two and of three values, `u();` to one of none
C27_Witness ==
    /\ IsExpStatement
    /\ SingleFunctionLowered
    /\ SourceExp.k \in {"ModuleCall", "ExpList"}
    /\ Len(ExpBlock) = 1
    /\ ExpBlock[1].k = "IgnoreAndPop"
    /\ ExpBlock[1].pop_num \in {0, 2, 3}

\* the program uses a mutable reference where an immutable one is expected
IsCoercedProgram ==
    \E pos \in {"Tail", "Value"} : \E shape \in RefShapes : prog = CoercedProgram(pos, shape)

\* the expression of type &mut u64, the type expected of it, and what its
\* lowering yielded: the result of `tail`, or the right-hand side of the
\* assignment that the let became
CoercedSource == SourceBody[1].sub[1]
CoercedExpected ==
    IF Len(SourceBody) = 1 THEN type_(SourceFunction.signature.return_type)
    ELSE IF Len(SourceBody[1].lvs) = 1 THEN type_(SourceBody[1].lvs[1].nty)
    ELSE type_(NTuple(SourceBody[1].ntys))
CoercedYield(r) == IF Len(SourceBody) = 1 THEN r.e ELSE StmtsAt(r.b, 3)[1].sub[1]

\* C28: an expression of type &mut T (or a tuple with such a component)
\* lowered in tail or value position with the expected type &T (or the
\* tuple with &T there) yields an expression of the expected type, whatever
\* its kind: also an if/else, a loop with a break or a block that is the
\* tail of a function returning the immutable reference.
C28_CoercionExplicit ==
    (IsCoercedProgram /\ pc.at = "functions") =>
       LET r == FunctionTail(context, SourceFunction)
       IN /\ type_(CoercedSource.nty) # CoercedExpected
          /\ IsSome(CoercedYield(r))
          /\ CoercedYield(r).ty = CoercedExpected

\* the body is one tuple expression (a1, ..., an) over the parameter x
IsTupleExpBody ==
    \E n \in 2..MaxArgs : \E kinds \in [1..n -> ArgKinds] : prog = TupleProgram(kinds)

SourceComponents == SourceBody[1].sub[1].sub

\* what is observed of the execution of a tuple: the calls in their order,
\* how it ended, and the values of the components
ObservedTuple(s) == [tr |-> s.tr, st |-> s.st, vs |-> s.vs]

\* the source tuple and the lowered body, run to their ends
RunTupleT(ret, x0) ==
    LET s == EvalTSeq(ret, StartOf(x0), SourceBody, 1)
    IN ObservedTuple(IF s.st = "ok" THEN [s EXCEPT !.st = "return"] ELSE s)
RunTupleH(ret, x0) == ObservedTuple(ExecH(ret, StartOf(x0), LoweredBody, 1))

\* C29: for a tuple expression lowered in value position, executing the
\* statements appended to the block and then evaluating the components of
\* the resulting Multiple left to right makes the components' calls in
\* source order, with the values the source gives the components, also when
\* an earlier component is an inline call and a later one hoists statements.
C29_TupleLeftToRight ==
    (SingleFunctionLowered /\ IsTupleExpBody) =>
       /\ LoweredLast.k = "Return"
       /\ LoweredLast.sub[1].k = "Multiple"
       /\ Len(LoweredLast.sub[1].sub) = Len(SourceComponents)
       /\ \A ret \in OraclesFor(MaxArgs), x0 \in {0, 1} :
             RunTupleH(ret, x0) = RunTupleT(ret, x0)

\* the program has a diverging expression as a pack field or as a tuple
\* component
IsDivergentPart ==
    \E shape \in PartShapes : \E kind \in DivergentKinds :
       prog = DivergentPartProgram(shape, kind)

\* C30: lowering a well-typed input, the environment holding no errors,
\* never fails an internal assertion or unwrap: also not for a diverging
\* expression that is a field of a pack written out of declared order or a
\* component of a tuple.
C30_NoIce == ~context.has_errors => context.ice = <<>>

====
